---- MODULE Spec2Model ----
(***************************************************************************)
(* A model of the rxprog boot-mode programmer: the command framing, the    *)
(* response reader, the connect handshake and the phase-typed session of   *)
(* rxprog/src/programmer.rs.                                               *)
(***************************************************************************)
EXTENDS Integers, Sequences, FiniteSets, TLC

VARIABLES
    phase,          \* the session value the caller owns ("None": no value left)
    wire,           \* history of the calls made on the target, in order
    last,           \* the API call made last and what it returned
    baud,           \* the local baud rate of the serial port
    borrows,        \* number of borrowing (&mut self) calls made so far
    loops,          \* number of programming loops ended with end()
    ioFailed,       \* an API call has returned an I/O error
    overflowChecks, \* the build checks integer overflow (debug) or wraps (release)
    image           \* the regions of the Image of the caller (none: <<>>)

vars == <<phase, wire, last, baud, borrows, loops, ioFailed, overflowChecks, image>>

----------------------------------------------------------------------------
(* Bounds of the model *)

\* borrowing calls (inquiries, read_memory, program_block) per run
MaxBorrows == 1
\* programming loops (program_user_or_data_area .. end) per run
MaxLoops == 1

----------------------------------------------------------------------------
(* Events on the target *)

Tx(bs)      == [ev |-> "write", b |-> bs, n |-> 0]
Rx(bs)      == [ev |-> "read", b |-> bs, n |-> 0]
SetBaud(r)  == [ev |-> "set_baud_rate", b |-> <<>>, n |-> r]
Reset       == [ev |-> "reset_into", b |-> <<>>, n |-> 0]
Clear       == [ev |-> "clear_buffers", b |-> <<>>, n |-> 0]
\* a clearing of the buffers that returned an error
ClearErr    == [ev |-> "clear_buffers", b |-> <<>>, n |-> 1]

\* the value a panicking call leaves behind
NoValue == "none"

----------------------------------------------------------------------------
(* Command framing: CommandData::bytes *)

\* the wrapping u8 sum of s[lo..hi]; wrapping addition is associative, so
\* the sum is taken by halves to keep the evaluation shallow
RECURSIVE SumRange(_, _, _)
SumRange(s, lo, hi) ==
    IF lo > hi THEN 0
    ELSE IF lo = hi THEN s[lo] % 256
    ELSE LET mid == (lo + hi) \div 2 IN
         (SumRange(s, lo, mid) + SumRange(s, mid + 1, hi)) % 256

\* bytes.iter().map(|x| Wrapping(*x)).sum::<Wrapping<u8>>().0
SumBytes(s) == SumRange(s, 1, Len(s))

CommandData(opcode, has_size_field, payload) ==
    [opcode |-> opcode, has_size_field |-> has_size_field, payload |-> payload]

\* the encoding with the checksum pushed whatever the payload size
bytes_ChecksumAlways(cd, checks) ==
    LET payload_size == Len(cd.payload)
        head == <<cd.opcode>>
                \o (IF cd.has_size_field THEN <<payload_size % 256>> ELSE <<>>)
                \o cd.payload
        sum  == SumBytes(head)
    IN  IF sum = 0 /\ checks
        THEN [panic |-> TRUE, bytes |-> head]
        ELSE [panic |-> FALSE, bytes |-> Append(head, ((255 - sum) + 1) % 256)]

\* the encoding; `!sum + 1` overflows u8 when sum = 0, which panics in a
\* build with overflow checks and wraps to 0 otherwise
bytes(cd, checks) ==
    LET payload_size == Len(cd.payload)
        head == <<cd.opcode>>
                \o (IF cd.has_size_field THEN <<payload_size % 256>> ELSE <<>>)
                \o cd.payload
        sum  == SumBytes(head)
    IN  IF payload_size # 0
        THEN IF sum = 0 /\ checks
             THEN [panic |-> TRUE, bytes |-> head]
             ELSE [panic |-> FALSE, bytes |-> Append(head, ((255 - sum) + 1) % 256)]
        ELSE [panic |-> FALSE, bytes |-> head]

\* u16::to_be_bytes
to_be_bytes16(x) == <<(x \div 256) % 256, x % 256>>

\* a u32 is kept as its two 16 bit halves <<high, low>>
U32(high, low) == <<high, low>>
\* u32::to_be_bytes
to_be_bytes32(x) == to_be_bytes16(x[1]) \o to_be_bytes16(x[2])

RECURSIVE from_be_bytes(_)
from_be_bytes(s) ==
    IF s = <<>> THEN 0 ELSE from_be_bytes(SubSeq(s, 1, Len(s) - 1)) * 256 + s[Len(s)]

----------------------------------------------------------------------------
(* Response reader: ResponseReader::read_response *)

\* a reader: the success first bytes, the error first byte (NoError: -1),
\* the body shape and the width of the length field of a sized body
NoErrorByte == -1
Reader(valid, err, shape, width) ==
    [valid |-> valid, err |-> err, shape |-> shape, width |-> width]
SimpleWithError(valid, err) == Reader(valid, err, "simple", 0)
SimpleNoError(valid)        == Reader(valid, NoErrorByte, "simple", 0)
SizedNoError(valid, w)      == Reader(valid, NoErrorByte, "sized", w)
SizedWithError(valid, e, w) == Reader(valid, e, "sized", w)

Response(tag, first, code, data, used) ==
    [tag |-> tag, first |-> first, code |-> code, data |-> data, used |-> used]

\* `fault` names the transport call of an execution that returns an I/O
\* error: the write, the flush, the read of the first byte, the read after it
NoFault    == "none"
WriteFault == "write"
FlushFault == "flush"
FirstFault == "read_first"
NextFault  == "read_next"
Faults == {NoFault, WriteFault, FlushFault, FirstFault, NextFault}
\* write() that returns Ok(n) with n less than the bytes offered: the first
\* byte only, or all but the last
ShortWrite == "write_first_byte"
MostWrite  == "write_all_but_last"
\* the number of the n bytes offered that write() accepts
Accepted(n, fault) ==
    IF fault = ShortWrite THEN (IF n < 1 THEN n ELSE 1)
    ELSE IF fault = MostWrite THEN (IF n < 1 THEN n ELSE n - 1)
    ELSE n

\* ResponseBody::read_body for SizedResponse<W>: read_exact of the length
\* field, of the data and of the checksum byte
read_body_sized(rd, reply, first, used, fault) ==
    LET rest == SubSeq(reply, used + 1, Len(reply)) IN
    IF fault = NextFault \/ Len(rest) < rd.width
    THEN Response("io", first, 0, <<>>, used)
    ELSE IF rd.width = 4 /\ rest[1] # 0
    THEN \* a length of 2^24 or more: the stream ends before the data does
         Response("io", first, 0, <<>>, used + rd.width)
    ELSE LET size == from_be_bytes(SubSeq(rest, 1, rd.width)) IN
         IF Len(rest) < rd.width + size
         THEN Response("io", first, 0, <<>>, used + rd.width)
         ELSE IF Len(rest) < rd.width + size + 1
         THEN Response("io", first, 0, <<>>, used + rd.width + size)
         ELSE Response("ok", first, 0,
                       SubSeq(rest, rd.width + 1, rd.width + size),
                       used + rd.width + size + 1)

\* read_first_byte uses `read`: a read of no byte leaves the buffer at 0
read_response(rd, reply, fault) ==
    IF fault = FirstFault THEN Response("io", 0, 0, <<>>, 0)
    ELSE
    LET used1      == IF reply = <<>> THEN 0 ELSE 1
        first_byte == IF reply = <<>> THEN 0 ELSE reply[1]
    IN  IF rd.err # NoErrorByte /\ first_byte = rd.err
        THEN IF fault = NextFault
             THEN Response("io", first_byte, 0, <<>>, used1)
             ELSE IF Len(reply) > used1
                  THEN Response("err", first_byte, reply[used1 + 1], <<>>, used1 + 1)
                  ELSE Response("err", first_byte, 0, <<>>, used1)
        ELSE IF first_byte \in rd.valid
        THEN IF rd.shape = "simple"
             THEN Response("ok", first_byte, 0, <<>>, used1)
             ELSE read_body_sized(rd, reply, first_byte, used1, fault)
        ELSE Response("panic", first_byte, 0, <<>>, used1)

----------------------------------------------------------------------------
(* Command execution: Transmit::tx then Receive::rx *)

Outcome(tag, val, data, ev) == [tag |-> tag, val |-> val, data |-> data, ev |-> ev]

RxEvents(reply, used) == IF used > 0 THEN <<Rx(SubSeq(reply, 1, used))>> ELSE <<>>

----------------------------------------------------------------------------
(* The commands: command_data and rx of each *)

Panicked == <<"panic", NoValue, <<>>>>
Unit     == <<"ok", "()", <<>>>>
Domain(e) == <<"domain", e, <<>>>>

\* IS-02 DeviceSelection; command_data asserts a 4 byte device code
DeviceSelection_command_data(device_code) == CommandData(16, TRUE, device_code)
DeviceSelection_reader == SimpleWithError({6}, 144)
DeviceSelection_rx(resp) ==
    IF resp.tag = "ok" THEN Unit
    ELSE IF resp.code = 17 THEN Domain("Checksum")
    ELSE IF resp.code = 33 THEN Domain("DeviceCode")
    ELSE Panicked

\* IS-04 ClockModeSelection
ClockModeSelection_command_data(mode) == CommandData(17, TRUE, <<mode>>)
ClockModeSelection_reader == SimpleWithError({6}, 145)
ClockModeSelection_rx(resp) ==
    IF resp.tag = "ok" THEN Unit
    ELSE IF resp.code = 17 THEN Domain("Checksum")
    ELSE IF resp.code = 33 THEN Domain("ClockMode")
    ELSE Panicked

\* MultiplicationRatio to u8: DivideBy(r) is -(r as i8) as u8
MultiplyBy(r) == [kind |-> "MultiplyBy", ratio |-> r]
DivideBy(r)   == [kind |-> "DivideBy", ratio |-> r]
AsI8(b) == IF b >= 128 THEN b - 256 ELSE b
\* the conversion with a division encoded as the one's complement
u8_from_MultiplicationRatio_OnesComplement(item) ==
    IF item.kind = "DivideBy" THEN 255 - item.ratio ELSE item.ratio

u8_from_MultiplicationRatio(item) ==
    IF item.kind = "DivideBy" THEN (0 - AsI8(item.ratio)) % 256 ELSE item.ratio

\* `-(ratio as i8)` overflows for DivideBy(128)
u8_from_MultiplicationRatio_overflows(item) ==
    item.kind = "DivideBy" /\ AsI8(item.ratio) = -128

\* From<u8> for MultiplicationRatio: i8::abs overflows for -128, which panics
\* in a build with overflow checks and wraps to -128 otherwise; 0 panics
MultiplicationRatio_from_u8(item, checks) ==
    LET item_signed == AsI8(item)
        ratio == IF item_signed < 0 THEN (0 - item_signed) % 256 ELSE item_signed
    IN  IF item_signed = -128 /\ checks THEN [panic |-> TRUE, value |-> NoValue]
        ELSE IF item_signed < 0 THEN [panic |-> FALSE, value |-> DivideBy(ratio)]
        ELSE IF item_signed > 0 THEN [panic |-> FALSE, value |-> MultiplyBy(ratio)]
        ELSE [panic |-> TRUE, value |-> NoValue]

\* IS-11a NewBitRateSelection
NewBitRateSelection_command_data(bit_rate, input_frequency, multiplication_ratios) ==
    CommandData(63, TRUE,
        to_be_bytes16(bit_rate) \o to_be_bytes16(input_frequency)
        \o <<Len(multiplication_ratios) % 256>>
        \o [i \in 1..Len(multiplication_ratios) |->
                u8_from_MultiplicationRatio(multiplication_ratios[i])])
\* u8::from(x) panics on DivideBy(128) in a build with overflow checks
NewBitRateSelection_command_data_panics(multiplication_ratios, checks) ==
    /\ checks
    /\ \E i \in 1..Len(multiplication_ratios) :
           u8_from_MultiplicationRatio_overflows(multiplication_ratios[i])
NewBitRateSelection_reader == SimpleWithError({6}, 191)
NewBitRateSelection_rx(resp) ==
    IF resp.tag = "ok" THEN Unit
    ELSE IF resp.code = 17 THEN Domain("Checksum")
    ELSE IF resp.code = 36 THEN Domain("BitRateSelection")
    ELSE IF resp.code = 37 THEN Domain("InputFrequency")
    ELSE IF resp.code = 38 THEN Domain("MultiplicationRatio")
    ELSE IF resp.code = 39 THEN Domain("OperatingFrequency")
    ELSE Panicked

\* IS-11b NewBitRateSelectionConfirmation
NewBitRateSelectionConfirmation_command_data == CommandData(6, FALSE, <<>>)
NewBitRateSelectionConfirmation_reader == SimpleNoError({6})
NewBitRateSelectionConfirmation_rx(resp) == Unit

\* IS-12 ProgrammingErasureStateTransition
ProgrammingErasureStateTransition_command_data == CommandData(64, FALSE, <<>>)
ProgrammingErasureStateTransition_reader == SimpleWithError({38, 22}, 192)
ProgrammingErasureStateTransition_rx(resp) ==
    IF resp.tag = "ok"
    THEN IF resp.first = 38 THEN <<"ok", "Disabled", <<>>>>
         ELSE IF resp.first = 22 THEN <<"ok", "Enabled", <<>>>>
         ELSE Panicked
    ELSE IF resp.code = 81 THEN Domain("()")
    ELSE Panicked

\* PE-02 UserDataAreaProgrammingSelection
UserDataAreaProgrammingSelection_command_data == CommandData(67, FALSE, <<>>)
UserDataAreaProgrammingSelection_reader == SimpleNoError({6})
UserDataAreaProgrammingSelection_rx(resp) == Unit

\* PE-03 256-byte programming: 4 byte big-endian address, then 256 data bytes
X256ByteProgramming_command_data(address, data) ==
    CommandData(80, TRUE, to_be_bytes32(address) \o data)
X256ByteProgramming_reader == SimpleWithError({6}, 208)
X256ByteProgramming_rx(resp) ==
    IF resp.tag = "ok" THEN Unit
    ELSE IF resp.code = 17 THEN Domain("Checksum")
    ELSE IF resp.code = 42 THEN Domain("Address")
    ELSE IF resp.code = 83 THEN Domain("Programming")
    ELSE Panicked

\* PE-06 MemoryRead
MemoryArea_byte(area) == IF area = "UserBootArea" THEN 0 ELSE 1
MemoryRead_command_data(area, start_address, size) ==
    CommandData(82, TRUE,
        <<MemoryArea_byte(area)>> \o to_be_bytes32(start_address) \o to_be_bytes32(size))
MemoryRead_reader == SizedWithError({82}, 210, 4)
MemoryRead_rx(resp) ==
    IF resp.tag = "ok" THEN <<"ok", "data", resp.data>>
    ELSE IF resp.code = 17 THEN Domain("Checksum")
    ELSE IF resp.code = 42 THEN Domain("Address")
    ELSE IF resp.code = 43 THEN Domain("DataSize")
    ELSE Panicked

\* PE-05 BlockErasure
BlockErasure_command_data(block) == CommandData(88, TRUE, <<block>>)
BlockErasure_reader == SimpleWithError({6}, 216)
\* rx reporting every unknown error code as Erasure
BlockErasure_rx_AnyCode(resp) ==
    IF resp.tag = "ok" THEN Unit
    ELSE IF resp.code = 17 THEN Domain("Checksum")
    ELSE IF resp.code = 41 THEN Domain("BlockNumber")
    ELSE Domain("Erasure")

BlockErasure_rx(resp) ==
    IF resp.tag = "ok" THEN Unit
    ELSE IF resp.code = 17 THEN Domain("Checksum")
    ELSE IF resp.code = 41 THEN Domain("BlockNumber")
    ELSE IF resp.code = 81 THEN Domain("Erasure")
    ELSE Panicked

\* the inquiries: an opcode-only request and a sized response whose payload
\* is a count byte followed by records; indexing past the payload panics
RECURSIVE LengthPrefixed(_, _, _)
LengthPrefixed(remaining, count, least) ==
    IF count = 0 THEN TRUE
    ELSE /\ remaining # <<>>
         /\ Len(remaining) - 1 >= remaining[1]
         /\ remaining[1] >= least
         /\ LengthPrefixed(SubSeq(remaining, 2 + remaining[1], Len(remaining)),
                           count - 1, least)

FixedRecords(data, width) ==
    /\ data # <<>>
    /\ Len(data) - 1 >= data[1] * width

Parsed(resp, wellFormed) ==
    IF wellFormed THEN <<"ok", "data", resp.data>> ELSE Panicked

SupportedDeviceInquiry_command_data == CommandData(32, FALSE, <<>>)
SupportedDeviceInquiry_reader == SizedNoError({48}, 1)
SupportedDeviceInquiry_rx(resp) ==
    Parsed(resp, /\ resp.data # <<>>
                 /\ LengthPrefixed(Tail(resp.data), resp.data[1], 4)
                 /\ \A i \in 1..Len(resp.data) : resp.data[i] < 128)

ClockModeInquiry_command_data == CommandData(33, FALSE, <<>>)
ClockModeInquiry_reader == SizedNoError({49}, 1)
ClockModeInquiry_rx(resp) == Parsed(resp, TRUE)

MultiplicationRatioInquiry_command_data == CommandData(34, FALSE, <<>>)
MultiplicationRatioInquiry_reader == SizedNoError({50}, 1)
MultiplicationRatioInquiry_rx(resp) ==
    Parsed(resp, /\ resp.data # <<>>
                 /\ LengthPrefixed(Tail(resp.data), resp.data[1], 0))

OperatingFrequencyInquiry_command_data == CommandData(35, FALSE, <<>>)
OperatingFrequencyInquiry_reader == SizedNoError({51}, 1)
OperatingFrequencyInquiry_rx(resp) == Parsed(resp, FixedRecords(resp.data, 4))

UserBootAreaInformationInquiry_command_data == CommandData(36, FALSE, <<>>)
UserBootAreaInformationInquiry_reader == SizedNoError({52}, 1)
UserBootAreaInformationInquiry_rx(resp) == Parsed(resp, FixedRecords(resp.data, 8))

UserAreaInformationInquiry_command_data == CommandData(36, FALSE, <<>>)
UserAreaInformationInquiry_reader == SizedNoError({52}, 1)
UserAreaInformationInquiry_rx(resp) == Parsed(resp, FixedRecords(resp.data, 8))

ErasureBlockInformationInquiry_command_data == CommandData(38, FALSE, <<>>)
ErasureBlockInformationInquiry_reader == SizedNoError({54}, 2)
ErasureBlockInformationInquiry_rx(resp) == Parsed(resp, FixedRecords(resp.data, 8))

----------------------------------------------------------------------------
(* Command::execute *)

\* Receive::rx of the command named cmd
rx(cmd, resp) ==
    CASE cmd = "DeviceSelection" -> DeviceSelection_rx(resp)
      [] cmd = "ClockModeSelection" -> ClockModeSelection_rx(resp)
      [] cmd = "NewBitRateSelection" -> NewBitRateSelection_rx(resp)
      [] cmd = "NewBitRateSelectionConfirmation" -> NewBitRateSelectionConfirmation_rx(resp)
      [] cmd = "ProgrammingErasureStateTransition" -> ProgrammingErasureStateTransition_rx(resp)
      [] cmd = "UserDataAreaProgrammingSelection" -> UserDataAreaProgrammingSelection_rx(resp)
      [] cmd = "X256ByteProgramming" -> X256ByteProgramming_rx(resp)
      [] cmd = "MemoryRead" -> MemoryRead_rx(resp)
      [] cmd = "SupportedDeviceInquiry" -> SupportedDeviceInquiry_rx(resp)
      [] cmd = "ClockModeInquiry" -> ClockModeInquiry_rx(resp)
      [] cmd = "MultiplicationRatioInquiry" -> MultiplicationRatioInquiry_rx(resp)
      [] cmd = "OperatingFrequencyInquiry" -> OperatingFrequencyInquiry_rx(resp)
      [] cmd = "UserBootAreaInformationInquiry" -> UserBootAreaInformationInquiry_rx(resp)
      [] cmd = "UserAreaInformationInquiry" -> UserAreaInformationInquiry_rx(resp)
      [] cmd = "ErasureBlockInformationInquiry" -> ErasureBlockInformationInquiry_rx(resp)
      [] cmd = "BlockErasure" -> BlockErasure_rx(resp)

\* execute sending the frame again after an error response
execute_RetryOnError(cd, rd, cmd, reply, fault, checks) ==
    LET enc == bytes(cd, checks) IN
    IF enc.panic THEN Outcome("panic", NoValue, <<>>, <<>>)
    ELSE IF fault = WriteFault THEN Outcome("io", NoValue, <<>>, <<>>)
    ELSE IF fault = FlushFault THEN Outcome("io", NoValue, <<>>, <<Tx(enc.bytes)>>)
    ELSE LET resp == read_response(rd, reply, fault)
             once == <<Tx(enc.bytes)>> \o RxEvents(reply, resp.used)
             ev   == IF resp.tag = "err" THEN once \o once ELSE once
         IN  IF resp.tag = "io" THEN Outcome("io", NoValue, <<>>, ev)
             ELSE IF resp.tag = "panic" THEN Outcome("panic", NoValue, <<>>, ev)
             ELSE LET r == rx(cmd, resp) IN Outcome(r[1], r[2], r[3], ev)

\* tx: write the encoding, flush; failure of either returns before rx
\* rx(cmd, resp) maps the reader's response to the command's result
\* <<tag, val, data>>: tag "ok" (Ok(Ok)), "domain" (Ok(Err)) or "panic"
execute(cd, rd, cmd, reply, fault, checks) ==
    LET enc == bytes(cd, checks)
        \* p.write(..)?: the count it returns is not looked at
        sent == SubSeq(enc.bytes, 1, Accepted(Len(enc.bytes), fault))
    IN
    IF enc.panic THEN Outcome("panic", NoValue, <<>>, <<>>)
    ELSE IF fault = WriteFault THEN Outcome("io", NoValue, <<>>, <<>>)
    ELSE IF fault = FlushFault THEN Outcome("io", NoValue, <<>>, <<Tx(sent)>>)
    ELSE LET resp == read_response(rd, reply, fault)
             ev   == <<Tx(sent)>> \o RxEvents(reply, resp.used)
         IN  IF resp.tag = "io" THEN Outcome("io", NoValue, <<>>, ev)
             ELSE IF resp.tag = "panic" THEN Outcome("panic", NoValue, <<>>, ev)
             ELSE LET r == rx(cmd, resp) IN Outcome(r[1], r[2], r[3], ev)

----------------------------------------------------------------------------
(* Programmer::connect *)

\* the baud rates tried, ended by the 0 that returns NoResponse
BaudRates == <<9600, 4800, 2400, 1200, 0>>
\* probes written per baud rate
MaxAttempts == 30

\* bytes_to_read() is called at most this often: per baud rate, once before
\* each probe, once after the last and once more after the loop
TotalChecks == (Len(BaudRates) - 1) * (MaxAttempts + 2)

\* the failing transport calls of connect that the model tries (0: none);
\* the fallible calls set_baud_rate, bytes_to_read, write and read_exact are
\* counted in the order they are made
MaxConnectFault == 6
\* the number that stands for a failing clear_buffers(), which is called
\* before the counted calls and whose result connect does not look at
ClearFault == -1

\* The device as connect sees it: the first `z` calls of bytes_to_read()
\* return 0 and every later one at least 1; `f` is the number of the
\* transport call that fails.
Probing(io, q, c, ev) == [io |-> io, q |-> q, c |-> c, ev |-> ev]

\* the loop with `attempts <= 30` for `attempts < 30`
RECURSIVE ProbeLoop_OffByOne(_, _, _, _, _, _)
ProbeLoop_OffByOne(attempts, q, c, ev, z, f) ==
    IF c + 1 = f THEN Probing(TRUE, q, c + 1, ev)
    ELSE IF q + 1 > z THEN Probing(FALSE, q + 1, c + 1, ev)
    ELSE IF ~(attempts <= MaxAttempts) THEN Probing(FALSE, q + 1, c + 1, ev)
    ELSE IF c + 2 = f THEN Probing(TRUE, q + 1, c + 2, ev)
    ELSE ProbeLoop_OffByOne(attempts + 1, q + 1, c + 2, Append(ev, Tx(<<0>>)), z, f)

\* while self.target.bytes_to_read()? < 1 && attempts < 30 { write(&[0x00])? }
RECURSIVE ProbeLoop(_, _, _, _, _, _)
ProbeLoop(attempts, q, c, ev, z, f) ==
    IF c + 1 = f THEN Probing(TRUE, q, c + 1, ev)
    ELSE IF q + 1 > z THEN Probing(FALSE, q + 1, c + 1, ev)
    ELSE IF ~(attempts < MaxAttempts) THEN Probing(FALSE, q + 1, c + 1, ev)
    ELSE IF c + 2 = f THEN Probing(TRUE, q + 1, c + 2, ev)
    ELSE ProbeLoop(attempts + 1, q + 1, c + 2, Append(ev, Tx(<<0>>)), z, f)

\* for baud_rate in &[9600, 4800, 2400, 1200, 0] { ... }
\* result "break": a byte is available; "NoResponse"; "io"
RECURSIVE BaudLoop(_, _, _, _, _, _)
BaudLoop(i, q, c, ev, z, f) ==
    LET baud_rate == BaudRates[i] IN
    IF baud_rate = 0 THEN [res |-> "NoResponse", c |-> c, ev |-> ev]
    ELSE IF c + 1 = f THEN [res |-> "io", c |-> c + 1, ev |-> ev]
    ELSE LET p == ProbeLoop(0, q, c + 1, Append(ev, SetBaud(baud_rate)), z, f) IN
         IF p.io THEN [res |-> "io", c |-> p.c, ev |-> p.ev]
         ELSE IF p.c + 1 = f THEN [res |-> "io", c |-> p.c + 1, ev |-> p.ev]
         ELSE IF p.q + 1 > z THEN [res |-> "break", c |-> p.c + 1, ev |-> p.ev]
         ELSE BaudLoop(i + 1, p.q + 1, p.c + 1, p.ev, z, f)

\* the match with the arms of 0xE6 and 0xFF exchanged
connect_result_Swapped(response2) ==
    IF response2 = 255 THEN <<"ok", "ProgrammerConnected">>
    ELSE IF response2 = 230 THEN <<"domain", "Failed">>
    ELSE <<"domain", "BadResponse">>

\* match response2 { 0xE6 => Ok(ProgrammerConnected), 0xFF => Failed, _ => BadResponse }
connect_result(response2) ==
    IF response2 = 230 THEN <<"ok", "ProgrammerConnected">>
    ELSE IF response2 = 255 THEN <<"domain", "Failed">>
    ELSE <<"domain", "BadResponse">>

\* the whole of connect; response1 and response2 are the bytes the device
\* sends (response2 = -1: it sends nothing and read_exact fails)
connect_run(z, response1, response2, f) ==
    LET b == BaudLoop(1, 0, 0,
                      <<Reset, IF f = ClearFault THEN ClearErr ELSE Clear>>, z, f) IN
    IF b.res = "NoResponse" THEN Outcome("domain", "NoResponse", <<>>, b.ev)
    ELSE IF b.res = "io" THEN Outcome("io", NoValue, <<>>, b.ev)
    ELSE IF b.c + 1 = f THEN Outcome("io", NoValue, <<>>, b.ev)
    ELSE LET ev1 == Append(b.ev, Rx(<<response1>>)) IN
         IF response1 # 0 THEN Outcome("domain", "BadResponse", <<>>, ev1)
         ELSE IF b.c + 2 = f THEN Outcome("io", NoValue, <<>>, ev1)
         ELSE LET ev2 == Append(ev1, Tx(<<85>>)) IN
              IF b.c + 3 = f \/ response2 = -1 THEN Outcome("io", NoValue, <<>>, ev2)
              ELSE LET r == connect_result(response2) IN
                   Outcome(r[1], r[2], <<>>, Append(ev2, Rx(<<response2>>)))

\* Programmer::connect of src/src/programmer.rs, the revision with one baud
\* rate: clear()? is the first fallible call, the probing loop is the same,
\* and `attempts >= 30` decides on NoResponse
connect_single_run(z, response1, response2, f) ==
    IF f = 1 THEN Outcome("io", NoValue, <<>>, <<ClearErr>>)
    ELSE LET p == ProbeLoop(0, 0, 1, <<Clear>>, z, f)
             attempts == Len(p.ev) - 1
         IN  IF p.io THEN Outcome("io", NoValue, <<>>, p.ev)
             ELSE IF attempts >= MaxAttempts
                  THEN Outcome("domain", "NoResponse", <<>>, p.ev)
             ELSE IF p.c + 1 = f THEN Outcome("io", NoValue, <<>>, p.ev)
             ELSE LET ev1 == Append(p.ev, Rx(<<response1>>)) IN
                  IF response1 # 0 THEN Outcome("domain", "BadResponse", <<>>, ev1)
                  ELSE IF p.c + 2 = f THEN Outcome("io", NoValue, <<>>, ev1)
                  ELSE LET ev2 == Append(ev1, Tx(<<85>>)) IN
                       IF p.c + 3 = f \/ response2 = -1
                       THEN Outcome("io", NoValue, <<>>, ev2)
                       ELSE LET r == connect_result(response2) IN
                            Outcome(r[1], r[2], <<>>, Append(ev2, Rx(<<response2>>)))

----------------------------------------------------------------------------
(* The session operations of programmer.rs, as functions of the device's   *)
(* reply and of the transport call that fails                              *)

\* Result::unwrap on the command's result: Ok(Err(_)) panics
unwrap(o) == IF o.tag = "domain" THEN Outcome("panic", NoValue, <<>>, o.ev) ELSE o

select_device_run(device_code, reply, fault, checks) ==
    IF Len(device_code) # 4 THEN Outcome("panic", NoValue, <<>>, <<>>)
    ELSE execute(DeviceSelection_command_data(device_code), DeviceSelection_reader,
                 "DeviceSelection", reply, fault, checks)

select_clock_mode_run(clock_mode, reply, fault, checks) ==
    execute(ClockModeSelection_command_data(clock_mode), ClockModeSelection_reader,
            "ClockModeSelection", reply, fault, checks)

\* the faults of the second half of set_new_bit_rate
BaudFault == "set_baud_rate"
ConfirmFault(fault) ==
    IF fault = "confirm_write" THEN WriteFault
    ELSE IF fault = "confirm_flush" THEN FlushFault
    ELSE IF fault = "confirm_read" THEN FirstFault
    ELSE NoFault
BitRateFaults == Faults \cup {BaudFault, "confirm_write", "confirm_flush", "confirm_read"}

\* set_new_bit_rate changing the baud rate after the confirmation
set_new_bit_rate_run_BaudLast(bit_rate, input_frequency, multiplication_ratios, reply, reply2, fault, checks) ==
    LET o1 == IF NewBitRateSelection_command_data_panics(multiplication_ratios, checks)
              THEN Outcome("panic", NoValue, <<>>, <<>>)
              ELSE execute(NewBitRateSelection_command_data(bit_rate, input_frequency,
                                                            multiplication_ratios),
                           NewBitRateSelection_reader, "NewBitRateSelection",
                           reply, fault, checks)
        product == bit_rate * 100
    IN  IF o1.tag # "ok" THEN o1
        ELSE IF product > 65535 /\ checks THEN Outcome("panic", NoValue, <<>>, o1.ev)
        ELSE LET baud_rate == product % 65536
                 o2 == execute(NewBitRateSelectionConfirmation_command_data,
                               NewBitRateSelectionConfirmation_reader,
                               "NewBitRateSelectionConfirmation",
                               reply2, ConfirmFault(fault), checks)
             IN  IF o2.tag # "ok" THEN Outcome(o2.tag, o2.val, <<>>, o1.ev \o o2.ev)
                 ELSE IF fault = BaudFault THEN Outcome("io", NoValue, <<>>, o1.ev \o o2.ev)
                 ELSE Outcome(o2.tag, o2.val, <<>>,
                              o1.ev \o o2.ev \o <<SetBaud(baud_rate)>>)

\* let baud_rate: u32 = (bit_rate * 100).into(): the product is a u16
set_new_bit_rate_run(bit_rate, input_frequency, multiplication_ratios, reply, reply2, fault, checks) ==
    LET o1 == IF NewBitRateSelection_command_data_panics(multiplication_ratios, checks)
              THEN Outcome("panic", NoValue, <<>>, <<>>)
              ELSE execute(NewBitRateSelection_command_data(bit_rate, input_frequency,
                                                            multiplication_ratios),
                           NewBitRateSelection_reader, "NewBitRateSelection",
                           reply, fault, checks)
        product == bit_rate * 100
    IN  IF o1.tag # "ok" THEN o1
        ELSE IF product > 65535 /\ checks THEN Outcome("panic", NoValue, <<>>, o1.ev)
        ELSE IF fault = BaudFault THEN Outcome("io", NoValue, <<>>, o1.ev)
        ELSE LET baud_rate == product % 65536
                 o2 == execute(NewBitRateSelectionConfirmation_command_data,
                               NewBitRateSelectionConfirmation_reader,
                               "NewBitRateSelectionConfirmation",
                               reply2, ConfirmFault(fault), checks)
             IN  Outcome(o2.tag, o2.val, <<>>,
                         o1.ev \o <<SetBaud(baud_rate)>> \o o2.ev)

\* the transition accepting Enabled like Disabled
programming_erasure_state_transition_run_AnyStatus(reply, fault, checks) ==
    unwrap(execute(ProgrammingErasureStateTransition_command_data,
                   ProgrammingErasureStateTransition_reader,
                   "ProgrammingErasureStateTransition", reply, fault, checks))

\* match response { Disabled => Ok(..), Enabled => panic!(..) }
programming_erasure_state_transition_run(reply, fault, checks) ==
    LET o == unwrap(execute(ProgrammingErasureStateTransition_command_data,
                            ProgrammingErasureStateTransition_reader,
                            "ProgrammingErasureStateTransition", reply, fault, checks))
    IN  IF o.tag = "ok" /\ o.val = "Enabled"
        THEN Outcome("panic", NoValue, <<>>, o.ev)
        ELSE o

program_user_or_data_area_run(reply, fault, checks) ==
    unwrap(execute(UserDataAreaProgrammingSelection_command_data,
                   UserDataAreaProgrammingSelection_reader,
                   "UserDataAreaProgrammingSelection", reply, fault, checks))

read_memory_run(area, start_address, size, reply, fault, checks) ==
    execute(MemoryRead_command_data(area, start_address, size), MemoryRead_reader,
            "MemoryRead", reply, fault, checks)

program_block_run(address, data, reply, fault, checks) ==
    execute(X256ByteProgramming_command_data(address, data),
            X256ByteProgramming_reader, "X256ByteProgramming", reply, fault, checks)

\* the block sent by end(): address 0xFFFFFFFF, data [0u8; 256]
DataLen == 256
end_address == U32(65535, 65535)
end_data == [i \in 1..DataLen |-> 0]
\* end sending its block to address 0 instead of the end marker
end_run_Address0(reply, fault, checks) ==
    unwrap(execute(X256ByteProgramming_command_data(U32(0, 0), end_data),
                   X256ByteProgramming_reader, "X256ByteProgramming",
                   reply, fault, checks))

end_run(reply, fault, checks) ==
    unwrap(execute(X256ByteProgramming_command_data(end_address, end_data),
                   X256ByteProgramming_reader, "X256ByteProgramming",
                   reply, fault, checks))

\* an inquiry: cmd.execute(&mut self.target)?.unwrap()
inquiry_run(cd, rd, cmd, reply, fault, checks) ==
    unwrap(execute(cd, rd, cmd, reply, fault, checks))

----------------------------------------------------------------------------
(* Inputs: what the caller passes and what the device replies *)

DeviceCodes == {<<68, 69, 86, 49>>, <<68, 69, 86>>}
ClockModes == {1}
BitRates == {192, 655, 656, 1152}
InputFrequencies == {1250}
RatioLists == {<<MultiplyBy(4), DivideBy(2)>>}
Addresses == {U32(0, 0), U32(65535, 65535)}
\* two blocks; with the address 0 the frame of the second sums to 0 before
\* its checksum (0x50 + 0x04 + 0xAC)
DataBlocks == {[i \in 1..DataLen |-> IF i = 1 THEN 165 ELSE 255],
               [i \in 1..DataLen |-> IF i = 1 THEN 172 ELSE 0]}

\* replies to a command with a simple response: nothing, each success byte,
\* an unknown byte, the error byte alone and with known and unknown codes
SimpleReplies(valid, err, codes) ==
    {<<>>, <<119>>} \cup {<<v>> : v \in valid}
    \cup (IF err = NoErrorByte THEN {}
          ELSE {<<err>>} \cup {<<err, c>> : c \in codes \cup {153}})

\* replies to a command with a sized response carrying `data`:
\* nothing, an unknown byte, the whole frame, the frame without its checksum,
\* a frame whose payload is the single byte 1
SizedFrame(first, width, data) ==
    <<first>> \o (IF width = 1 THEN <<Len(data)>>
                  ELSE IF width = 2 THEN to_be_bytes16(Len(data))
                  ELSE to_be_bytes32(U32(0, Len(data)))) \o data
SizedReplies(first, width, data) ==
    {<<>>, <<119>>, SizedFrame(first, width, data) \o <<0>>,
     SizedFrame(first, width, data), SizedFrame(first, width, <<1>>) \o <<0>>}

\* the transport faults tried in the borrowing calls
BorrowFaults == {NoFault, FirstFault}

----------------------------------------------------------------------------
(* The state machine *)

Programmer                                 == "Programmer"
ProgrammerConnected                        == "ProgrammerConnected"
ProgrammerConnectedDeviceSelected          == "ProgrammerConnectedDeviceSelected"
ProgrammerConnectedClockModeSelected       == "ProgrammerConnectedClockModeSelected"
ProgrammerConnectedNewBitRateSelected      == "ProgrammerConnectedNewBitRateSelected"
ProgrammerConnectedProgrammingErasureState == "ProgrammerConnectedProgrammingErasureState"
ProgrammerConnectedWaitingForData          == "ProgrammerConnectedWaitingForData"
\* the caller owns no session value: it was moved into a call that did not
\* return one, or the call panicked
None == "None"

Called(op, o, arg) ==
    [op |-> op, tag |-> o.tag, val |-> o.val, from |-> phase,
     start |-> Len(wire), arg |-> arg]

\* the baud rate after the events `ev`
BaudAfter(ev, b) ==
    LET S == {i \in 1..Len(ev) : ev[i].ev = "set_baud_rate"} IN
    IF S = {} THEN b ELSE ev[CHOOSE i \in S : \A j \in S : j <= i].n

\* a method taking `mut self`: the session is moved into the call, and a new
\* one comes back only on success
Consume(op, o, to, arg) ==
    /\ wire' = wire \o o.ev
    /\ phase' = IF o.tag = "ok" THEN to ELSE None
    /\ last' = Called(op, o, arg)
    /\ baud' = BaudAfter(o.ev, baud)
    /\ ioFailed' = (ioFailed \/ o.tag = "io")
    /\ UNCHANGED <<borrows, overflowChecks, image>>

\* a variant of Borrow in which the caller gets the session back on success
\* only
Borrow_Moved(op, o, arg) ==
    /\ borrows < MaxBorrows
    /\ borrows' = borrows + 1
    /\ wire' = wire \o o.ev
    /\ phase' = IF o.tag = "ok" THEN phase ELSE None
    /\ last' = Called(op, o, arg)
    /\ ioFailed' = (ioFailed \/ o.tag = "io")
    /\ UNCHANGED <<baud, loops, overflowChecks, image>>

\* a method taking `&mut self`: the caller keeps the session unless the call
\* panics
Borrow(op, o, arg) ==
    /\ borrows < MaxBorrows
    /\ borrows' = borrows + 1
    /\ wire' = wire \o o.ev
    /\ phase' = IF o.tag = "panic" THEN None ELSE phase
    /\ last' = Called(op, o, arg)
    /\ ioFailed' = (ioFailed \/ o.tag = "io")
    /\ UNCHANGED <<baud, loops, overflowChecks, image>>

Init ==
    /\ phase = Programmer
    /\ wire = <<>>
    /\ last = [op |-> "new", tag |-> "ok", val |-> Programmer, from |-> Programmer,
               start |-> 0, arg |-> 0]
    /\ baud = 9600
    /\ borrows = 0
    /\ loops = 0
    /\ ioFailed = FALSE
    /\ overflowChecks \in BOOLEAN
    /\ image = <<>>

connect_with(arrivals, faults) ==
    /\ phase = Programmer
    /\ \E z \in arrivals, response1 \in {0, 119}, response2 \in {230, 255, 119, -1},
          f \in faults :
          Consume("connect", connect_run(z, response1, response2, f),
                  ProgrammerConnected, z)
    /\ UNCHANGED loops

\* connect with the device answering after one probe or never
connect == connect_with({1, TotalChecks}, 0..MaxConnectFault)

\* connect with the device answering at any point of the probing
\* and with every transport call that may fail, clear_buffers included
connect_probing == connect_with(0..TotalChecks, ClearFault..MaxConnectFault)

supported_devices ==
    /\ phase = ProgrammerConnected
    /\ \E reply \in SizedReplies(48, 1, <<1, 4, 68, 69, 86, 49>>), fault \in BorrowFaults :
          Borrow("supported_devices",
                 inquiry_run(SupportedDeviceInquiry_command_data,
                             SupportedDeviceInquiry_reader, "SupportedDeviceInquiry",
                             reply, fault, overflowChecks), 0)

select_device ==
    /\ phase = ProgrammerConnected
    /\ \E device_code \in DeviceCodes, reply \in SimpleReplies({6}, 144, {17, 33}),
          fault \in Faults :
          Consume("select_device",
                  select_device_run(device_code, reply, fault, overflowChecks),
                  ProgrammerConnectedDeviceSelected, 0)
    /\ UNCHANGED loops

clock_modes ==
    /\ phase = ProgrammerConnectedDeviceSelected
    /\ \E reply \in SizedReplies(49, 1, <<0, 1>>), fault \in BorrowFaults :
          Borrow("clock_modes",
                 inquiry_run(ClockModeInquiry_command_data, ClockModeInquiry_reader,
                             "ClockModeInquiry", reply, fault, overflowChecks), 0)

select_clock_mode ==
    /\ phase = ProgrammerConnectedDeviceSelected
    /\ \E clock_mode \in ClockModes, reply \in SimpleReplies({6}, 145, {17, 33}),
          fault \in Faults :
          Consume("select_clock_mode",
                  select_clock_mode_run(clock_mode, reply, fault, overflowChecks),
                  ProgrammerConnectedClockModeSelected, 0)
    /\ UNCHANGED loops

multiplication_ratios ==
    /\ phase = ProgrammerConnectedClockModeSelected
    /\ \E reply \in SizedReplies(50, 1, <<1, 2, 4, 254>>), fault \in BorrowFaults :
          Borrow("multiplication_ratios",
                 inquiry_run(MultiplicationRatioInquiry_command_data,
                             MultiplicationRatioInquiry_reader,
                             "MultiplicationRatioInquiry",
                             reply, fault, overflowChecks), 0)

operating_frequencies ==
    /\ phase = ProgrammerConnectedClockModeSelected
    /\ \E reply \in SizedReplies(51, 1, <<1, 3, 232, 7, 208>>), fault \in BorrowFaults :
          Borrow("operating_frequencies",
                 inquiry_run(OperatingFrequencyInquiry_command_data,
                             OperatingFrequencyInquiry_reader,
                             "OperatingFrequencyInquiry",
                             reply, fault, overflowChecks), 0)

set_new_bit_rate ==
    /\ phase = ProgrammerConnectedClockModeSelected
    /\ \E bit_rate \in BitRates, input_frequency \in InputFrequencies,
          multiplication_ratios_ \in RatioLists,
          reply \in SimpleReplies({6}, 191, {17, 36, 37, 38, 39}),
          reply2 \in SimpleReplies({6}, NoErrorByte, {}),
          fault \in BitRateFaults :
          Consume("set_new_bit_rate",
                  set_new_bit_rate_run(bit_rate, input_frequency, multiplication_ratios_,
                                       reply, reply2, fault, overflowChecks),
                  ProgrammerConnectedNewBitRateSelected, bit_rate)
    /\ UNCHANGED loops

AreaData == <<1, 255, 255, 128, 0, 255, 255, 255, 255>>

user_boot_area ==
    /\ phase = ProgrammerConnectedNewBitRateSelected
    /\ \E reply \in SizedReplies(52, 1, AreaData), fault \in BorrowFaults :
          Borrow("user_boot_area",
                 inquiry_run(UserBootAreaInformationInquiry_command_data,
                             UserBootAreaInformationInquiry_reader,
                             "UserBootAreaInformationInquiry",
                             reply, fault, overflowChecks), 0)

user_area ==
    /\ phase = ProgrammerConnectedNewBitRateSelected
    /\ \E reply \in SizedReplies(52, 1, AreaData) \cup SizedReplies(53, 1, AreaData),
          fault \in BorrowFaults :
          Borrow("user_area",
                 inquiry_run(UserAreaInformationInquiry_command_data,
                             UserAreaInformationInquiry_reader,
                             "UserAreaInformationInquiry",
                             reply, fault, overflowChecks), 0)

erasure_block ==
    /\ phase = ProgrammerConnectedNewBitRateSelected
    /\ \E reply \in SizedReplies(54, 2, AreaData), fault \in BorrowFaults :
          Borrow("erasure_block",
                 inquiry_run(ErasureBlockInformationInquiry_command_data,
                             ErasureBlockInformationInquiry_reader,
                             "ErasureBlockInformationInquiry",
                             reply, fault, overflowChecks), 0)

programming_erasure_state_transition ==
    /\ phase = ProgrammerConnectedNewBitRateSelected
    /\ \E reply \in SimpleReplies({38, 22}, 192, {81}), fault \in Faults :
          Consume("programming_erasure_state_transition",
                  programming_erasure_state_transition_run(reply, fault, overflowChecks),
                  ProgrammerConnectedProgrammingErasureState, 0)
    /\ UNCHANGED loops

program_user_or_data_area ==
    /\ phase = ProgrammerConnectedProgrammingErasureState
    /\ \E reply \in SimpleReplies({6}, NoErrorByte, {}), fault \in Faults :
          Consume("program_user_or_data_area",
                  program_user_or_data_area_run(reply, fault, overflowChecks),
                  ProgrammerConnectedWaitingForData, 0)
    /\ UNCHANGED loops

read_memory ==
    /\ phase = ProgrammerConnectedProgrammingErasureState
    /\ \E area \in {"UserArea"}, start_address \in {U32(0, 0)}, size \in {U32(0, 2)},
          reply \in SizedReplies(82, 4, <<1, 2>>) \cup {<<210>>, <<210, 42>>, <<210, 153>>},
          fault \in BorrowFaults :
          Borrow("read_memory",
                 read_memory_run(area, start_address, size, reply, fault, overflowChecks),
                 0)

program_block ==
    /\ phase = ProgrammerConnectedWaitingForData
    /\ \E address \in Addresses, data \in DataBlocks,
          reply \in SimpleReplies({6}, 208, {17, 42, 83}), fault \in BorrowFaults :
          Borrow("program_block",
                 program_block_run(address, data, reply, fault, overflowChecks),
                 [address |-> address, data |-> data])

\* end handing back the session it was given before the programming state
end_BitRateSelected ==
    /\ phase = ProgrammerConnectedWaitingForData
    /\ loops < MaxLoops
    /\ loops' = loops + 1
    /\ \E reply \in SimpleReplies({6}, 208, {17, 42, 83}), fault \in Faults :
          Consume("end", end_run(reply, fault, overflowChecks),
                  ProgrammerConnectedNewBitRateSelected, 0)

end ==
    /\ phase = ProgrammerConnectedWaitingForData
    /\ loops < MaxLoops
    /\ loops' = loops + 1
    /\ \E reply \in SimpleReplies({6}, 208, {17, 42, 83}), fault \in Faults :
          Consume("end", end_run(reply, fault, overflowChecks),
                  ProgrammerConnectedProgrammingErasureState, 0)

Next ==
    \/ connect
    \/ supported_devices
    \/ select_device
    \/ clock_modes
    \/ select_clock_mode
    \/ multiplication_ratios
    \/ operating_frequencies
    \/ set_new_bit_rate
    \/ user_boot_area
    \/ user_area
    \/ erasure_block
    \/ programming_erasure_state_transition
    \/ program_user_or_data_area
    \/ read_memory
    \/ program_block
    \/ end

Spec == Init /\ [][Next]_vars

\* the connect handshake alone, over every point at which the device may answer
NextConnect == connect_probing

SpecConnect == Init /\ [][NextConnect]_vars

\* connect of the revision with one baud rate, the device answering at any
\* point of the probing or not at all
connect_single ==
    /\ phase = Programmer
    /\ \E z \in 0..(MaxAttempts + 1), response1 \in {0, 119},
          response2 \in {230, 255, 119, -1}, f \in 0..MaxConnectFault :
          Consume("connect_single", connect_single_run(z, response1, response2, f),
                  ProgrammerConnected, z)
    /\ UNCHANGED loops

NextConnectSingle == connect_single

SpecConnectSingle == Init /\ [][NextConnectSingle]_vars

----------------------------------------------------------------------------
(* The encoder alone: CommandData::bytes applied to one CommandData *)

\* payload lengths around the one byte size field and the 260 byte block
PayloadLens == {0, 1, 2, 255, 256, 260}
Opcodes == {17, 80}
\* a payload of length n: a first byte, then zeros
Payload(n, first) == [i \in 1..n |-> IF i = 1 THEN first ELSE 0]
Payloads == {Payload(n, first) : n \in PayloadLens, first \in 0..255}
CommandDatas ==
    {CommandData(opcode, has_size_field, payload) :
        opcode \in Opcodes, has_size_field \in BOOLEAN, payload \in Payloads}

\* a CommandData has been built and not yet encoded
InitCodec ==
    /\ phase = "CommandData"
    /\ wire = <<>>
    /\ \E cd \in CommandDatas :
           last = [op |-> "CommandData", tag |-> "ok", val |-> NoValue,
                   from |-> "CommandData", start |-> 0, arg |-> cd]
    /\ baud = 9600
    /\ borrows = 0
    /\ loops = 0
    /\ ioFailed = FALSE
    /\ overflowChecks \in BOOLEAN
    /\ image = <<>>

\* the write of tx: p.write(&self.command_data().bytes())
encode ==
    /\ phase = "CommandData"
    /\ LET enc == bytes(last.arg, overflowChecks) IN
           /\ wire' = IF enc.panic THEN wire ELSE <<Tx(enc.bytes)>>
           /\ last' = [last EXCEPT !.op = "bytes",
                                   !.tag = IF enc.panic THEN "panic" ELSE "ok"]
           /\ phase' = IF enc.panic THEN None ELSE "Encoded"
    /\ UNCHANGED <<baud, borrows, loops, ioFailed, overflowChecks, image>>

NextCodec == encode

SpecCodec == InitCodec /\ [][NextCodec]_vars

----------------------------------------------------------------------------
(* The reader alone: ResponseReader::read_response applied to one stream *)

\* the longest data of a sized response in the streams read
MaxData == 2

\* PE-11 ReadLockBitStatus: 0x00 Locked and 0x40 Unlocked are first bytes
ReadLockBitStatus_reader == SimpleWithError({0, 64}, 241)

\* the readers tried: those of ReadLockBitStatus, DeviceSelection, the
\* confirmation, the inquiries with a one and a two byte length, MemoryRead,
\* and one whose error first byte is also a success first byte
Readers ==
    {ReadLockBitStatus_reader, DeviceSelection_reader,
     NewBitRateSelectionConfirmation_reader, SupportedDeviceInquiry_reader,
     ErasureBlockInformationInquiry_reader, MemoryRead_reader,
     SimpleWithError({6, 144}, 144)}

FirstBytes == {0, 6, 64, 48, 54, 82, 144, 210, 241, 119}

\* the length field of width w holding n
LengthField(w, n) ==
    IF w = 1 THEN <<n>> ELSE IF w = 2 THEN to_be_bytes16(n) ELSE to_be_bytes32(U32(0, n))

\* what may follow a first byte: a length, that many data bytes, a checksum
\* and one byte more; a u32 length of 2^24; every prefix of these
Bodies ==
    {LengthField(w, n) \o [i \in 1..n |-> 16 + i] \o <<238, 9>> :
        w \in {1, 2, 4}, n \in 0..MaxData}
    \cup {<<1, 0, 0, 0, 5>>}
Prefixes(S) == UNION {{SubSeq(b, 1, k) : k \in 0..Len(b)} : b \in S}
Streams == {<<>>} \cup {<<f>> \o p : f \in FirstBytes, p \in Prefixes(Bodies)}

ReadFaults == {NoFault, FirstFault, NextFault}

\* a reader has been built over a stream and not yet used
InitReader ==
    /\ phase = "ResponseReader"
    /\ wire = <<>>
    /\ \E rd \in Readers, stream \in Streams, fault \in ReadFaults :
           last = [op |-> "ResponseReader", tag |-> "ok", val |-> NoValue,
                   from |-> "ResponseReader", start |-> 0,
                   arg |-> [rd |-> rd, stream |-> stream, fault |-> fault]]
    /\ baud = 9600
    /\ borrows = 0
    /\ loops = 0
    /\ ioFailed = FALSE
    /\ overflowChecks = FALSE
    /\ image = <<>>

\* reader.read_response()
read ==
    /\ phase = "ResponseReader"
    /\ LET resp == read_response(last.arg.rd, last.arg.stream, last.arg.fault) IN
           /\ wire' = RxEvents(last.arg.stream, resp.used)
           /\ last' = [last EXCEPT !.op = "read_response", !.tag = resp.tag,
                                   !.val = resp]
           /\ phase' = IF resp.tag = "panic" THEN None ELSE "Read"
           /\ ioFailed' = (resp.tag = "io")
    /\ UNCHANGED <<baud, borrows, loops, overflowChecks, image>>

NextReader == read

SpecReader == InitReader /\ [][NextReader]_vars

----------------------------------------------------------------------------
(* The conversions between MultiplicationRatio and its byte *)

\* conversions applied in a row to one value
MaxConversions == 2

Bytes == 0..255
Ratios == {MultiplyBy(n) : n \in Bytes} \cup {DivideBy(n) : n \in Bytes}

\* a byte or a ratio is given (last.from names which); wire holds the results
\* of the conversions, which alternate
ValueIsByte == (last.from = "u8") <=> (Len(wire) % 2 = 0)

InitRatio ==
    /\ phase = "MultiplicationRatio"
    /\ wire = <<>>
    /\ \/ \E x \in Bytes :
              last = [op |-> "new", tag |-> "ok", val |-> x,
                      from |-> "u8", start |-> 0, arg |-> x]
       \/ \E x \in Ratios :
              last = [op |-> "new", tag |-> "ok", val |-> x,
                      from |-> "MultiplicationRatio", start |-> 0, arg |-> x]
    /\ baud = 9600
    /\ borrows = 0
    /\ loops = 0
    /\ ioFailed = FALSE
    /\ overflowChecks \in BOOLEAN
    /\ image = <<>>

\* MultiplicationRatio::from(byte)
from_u8 ==
    /\ phase = "MultiplicationRatio"
    /\ Len(wire) < MaxConversions
    /\ ValueIsByte
    /\ LET r == MultiplicationRatio_from_u8(last.val, overflowChecks) IN
           /\ last' = [last EXCEPT !.op = "from_u8", !.val = r.value,
                                   !.tag = IF r.panic THEN "panic" ELSE "ok"]
           /\ wire' = Append(wire, r.value)
           /\ phase' = IF r.panic THEN None ELSE phase
    /\ UNCHANGED <<baud, borrows, loops, ioFailed, overflowChecks, image>>

\* u8::from(ratio)
into_u8 ==
    /\ phase = "MultiplicationRatio"
    /\ Len(wire) < MaxConversions
    /\ ~ValueIsByte
    /\ LET b == u8_from_MultiplicationRatio(last.val)
           panics == u8_from_MultiplicationRatio_overflows(last.val) /\ overflowChecks
       IN  /\ last' = [last EXCEPT !.op = "into_u8",
                                   !.val = IF panics THEN NoValue ELSE b,
                                   !.tag = IF panics THEN "panic" ELSE "ok"]
           /\ wire' = Append(wire, IF panics THEN NoValue ELSE b)
           /\ phase' = IF panics THEN None ELSE phase
    /\ UNCHANGED <<baud, borrows, loops, ioFailed, overflowChecks, image>>

NextRatio ==
    \/ from_u8
    \/ into_u8

SpecRatio == InitRatio /\ [][NextRatio]_vars

----------------------------------------------------------------------------
(* One command alone: Command::execute on a transport *)

\* the longest list of ratios given to NewBitRateSelection
MaxRatios == 250

NewBitRateSelection(bit_rate, input_frequency, multiplication_ratios_) ==
    [name |-> "NewBitRateSelection", bit_rate |-> bit_rate,
     input_frequency |-> input_frequency,
     multiplication_ratios |-> multiplication_ratios_]
DeviceSelection(device_code) == [name |-> "DeviceSelection", device_code |-> device_code]
BlockErasure(block) == [name |-> "BlockErasure", block |-> block]
MemoryRead(area, start_address, size) ==
    [name |-> "MemoryRead", area |-> area, start_address |-> start_address, size |-> size]

\* TransmitCommandData::command_data of a command
command_data(cmd) ==
    CASE cmd.name = "NewBitRateSelection" ->
             NewBitRateSelection_command_data(cmd.bit_rate, cmd.input_frequency,
                                              cmd.multiplication_ratios)
      [] cmd.name = "DeviceSelection" -> DeviceSelection_command_data(cmd.device_code)
      [] cmd.name = "BlockErasure" -> BlockErasure_command_data(cmd.block)
      [] cmd.name = "MemoryRead" ->
             MemoryRead_command_data(cmd.area, cmd.start_address, cmd.size)

\* command_data panics: the assert_eq! of DeviceSelection, the overflow in
\* the ratio bytes of NewBitRateSelection
command_data_panics(cmd, checks) ==
    CASE cmd.name = "NewBitRateSelection" ->
             NewBitRateSelection_command_data_panics(cmd.multiplication_ratios, checks)
      [] cmd.name = "DeviceSelection" -> Len(cmd.device_code) # 4
      [] OTHER -> FALSE

\* the reader built by rx
reader(cmd) ==
    CASE cmd.name = "NewBitRateSelection" -> NewBitRateSelection_reader
      [] cmd.name = "DeviceSelection" -> DeviceSelection_reader
      [] cmd.name = "BlockErasure" -> BlockErasure_reader
      [] cmd.name = "MemoryRead" -> MemoryRead_reader

\* the parameters of NewBitRateSelection tried: lists of no ratio, of the
\* ratios of the unit test, of one ratio of every multiplier, of the
\* divisor 128 and of MaxRatios ratios
BitRates16 == {192, 258, 1152, 65281}
InputFrequencies16 == {1250, 258}
RatioListsTx ==
    {<<>>, <<MultiplyBy(4), DivideBy(2)>>, <<DivideBy(128)>>,
     <<DivideBy(3), MultiplyBy(127), DivideBy(127)>>,
     [i \in 1..MaxRatios |-> MultiplyBy(1)]}
    \cup {<<MultiplyBy(n)>> : n \in 1..127}
TxCommands ==
    {NewBitRateSelection(b, f, m) :
        b \in BitRates16, f \in InputFrequencies16, m \in RatioListsTx}

\* one command of each kind with an error branch
RxCommands ==
    {NewBitRateSelection(192, 1250, <<MultiplyBy(4), DivideBy(2)>>),
     DeviceSelection(<<68, 69, 86, 49>>), BlockErasure(56),
     MemoryRead("UserArea", U32(0, 256), U32(0, 2))}

\* the replies of the device: nothing, an acknowledgement, an unknown byte,
\* a MemoryRead frame, and each error first byte alone and with every code
ErrorFirstBytes == {144, 191, 216, 210}
Replies ==
    {<<>>, <<6>>, <<119>>, <<82, 0, 0, 0, 2, 17, 18, 220>>}
    \cup {<<e>> : e \in ErrorFirstBytes}
    \cup {<<e, code>> : e \in ErrorFirstBytes, code \in Bytes}

\* a command has been built and not yet executed
InitCommand ==
    /\ phase = "Command"
    /\ wire = <<>>
    /\ \/ \E cmd \in TxCommands :
              last = [op |-> "Command", tag |-> "ok", val |-> NoValue,
                      from |-> "Command", start |-> 0,
                      arg |-> [cmd |-> cmd, reply |-> <<6>>, fault |-> NoFault]]
       \/ \E cmd \in RxCommands, reply \in Replies, fault \in Faults :
              last = [op |-> "Command", tag |-> "ok", val |-> NoValue,
                      from |-> "Command", start |-> 0,
                      arg |-> [cmd |-> cmd, reply |-> reply, fault |-> fault]]
    /\ baud = 9600
    /\ borrows = 0
    /\ loops = 0
    /\ ioFailed = FALSE
    /\ overflowChecks \in BOOLEAN
    /\ image = <<>>

\* cmd.execute(&mut p)
execute_command ==
    /\ phase = "Command"
    /\ LET cmd == last.arg.cmd
           o == IF command_data_panics(cmd, overflowChecks)
                THEN Outcome("panic", NoValue, <<>>, <<>>)
                ELSE execute(command_data(cmd), reader(cmd), cmd.name,
                             last.arg.reply, last.arg.fault, overflowChecks)
       IN  /\ wire' = o.ev
           /\ last' = [last EXCEPT !.op = "execute", !.tag = o.tag, !.val = o.val]
           /\ phase' = IF o.tag = "panic" THEN None ELSE "Executed"
           /\ ioFailed' = (o.tag = "io")
    /\ UNCHANGED <<baud, borrows, loops, overflowChecks, image>>

NextCommand == execute_command

SpecCommand == InitCommand /\ [][NextCommand]_vars

\* the outcomes of the write of tx: an error, all bytes accepted, or fewer
TxFaults == {NoFault, WriteFault, FlushFault, ShortWrite, MostWrite}

TxReplies == {<<>>, <<6>>, <<119>>, <<82, 0, 0, 0, 2, 17, 18, 220>>,
              <<144, 17>>, <<191, 36>>, <<216, 81>>, <<210, 42>>}

\* a command has been built and not yet executed, over a transport whose
\* write may accept fewer bytes than it is offered
InitTx ==
    /\ phase = "Command"
    /\ wire = <<>>
    /\ \E cmd \in RxCommands, reply \in TxReplies, fault \in TxFaults :
          last = [op |-> "Command", tag |-> "ok", val |-> NoValue,
                  from |-> "Command", start |-> 0,
                  arg |-> [cmd |-> cmd, reply |-> reply, fault |-> fault]]
    /\ baud = 9600
    /\ borrows = 0
    /\ loops = 0
    /\ ioFailed = FALSE
    /\ overflowChecks \in BOOLEAN
    /\ image = <<>>

SpecTx == InitTx /\ [][NextCommand]_vars

----------------------------------------------------------------------------
(* The firmware image of the command line tool: regions of memory, each    *)
(* with a byte per address (src/src/image.rs)                              *)

UNPROGRAMMED_BYTE == 255

\* struct Region
Region(lo, hi, data) == [lo |-> lo, hi |-> hi, data |-> data]

\* address_range.contains(&address)
contains(region, address) == region.lo <= address /\ address <= region.hi

\* a variant of Image::new that clears the bytes to zero
Image_new_Zeroed(regions) ==
    [q \in 1..Len(regions) |->
        Region(regions[q].lo, regions[q].hi,
               [j \in 1..(regions[q].hi - regions[q].lo + 1) |-> 0])]

\* Image::new: one region per range, in the order given, every byte
\* unprogrammed; the ranges are taken as they are
Image_new(regions) ==
    [q \in 1..Len(regions) |->
        Region(regions[q].lo, regions[q].hi,
               [j \in 1..(regions[q].hi - regions[q].lo + 1) |-> UNPROGRAMMED_BYTE])]

\* the index of the first region that contains the address, 0 for none
find(img, address) ==
    LET S == {q \in 1..Len(img) : contains(img[q], address)}
    IN  IF S = {} THEN 0 ELSE CHOOSE q \in S : \A p \in S : q <= p

\* a variant of add_data that copies what fits into the region
Image_add_data_Clamped(img, address, data) ==
    LET q == find(img, address) IN
    IF q = 0 THEN [panic |-> TRUE, image |-> img]
    ELSE LET offset == address - img[q].lo
             fits == offset + Len(data) <= Len(img[q].data)
         IN  [panic |-> ~fits,
              image |-> [img EXCEPT ![q].data =
                           [j \in 1..Len(img[q].data) |->
                               IF offset < j /\ j <= offset + Len(data)
                               THEN data[j - offset] ELSE img[q].data[j]]]]

\* Image::add_data: the first region containing the address takes the data
\* at the offset of the address; no such region, or a slice that ends
\* beyond the data of the region, panics before a byte is copied
Image_add_data(img, address, data) ==
    LET q == find(img, address) IN
    IF q = 0 THEN [panic |-> TRUE, image |-> img]
    ELSE LET offset == address - img[q].lo IN
         IF offset + Len(data) > Len(img[q].data)
         THEN [panic |-> TRUE, image |-> img]
         ELSE [panic |-> FALSE,
               image |-> [img EXCEPT ![q].data =
                            [j \in 1..Len(img[q].data) |->
                                IF offset < j /\ j <= offset + Len(data)
                                THEN data[j - offset] ELSE img[q].data[j]]]]

\* struct Block
Block(start_address, data) == [start_address |-> start_address, data |-> data]

\* data.chunks_exact(block_length).enumerate(): chunk i, counted from 0
chunk(region, block_length, i) ==
    Block(region.lo + i * block_length,
          SubSeq(region.data, i * block_length + 1, (i + 1) * block_length))

\* the filter of programmable_blocks
AllUnprogrammed(data) == \A j \in 1..Len(data) : data[j] = UNPROGRAMMED_BYTE

RECURSIVE region_blocks(_, _, _)
\* the chunks i.. of one region that the filter lets through
region_blocks(region, block_length, i) ==
    IF (i + 1) * block_length > Len(region.data) THEN <<>>
    ELSE LET b == chunk(region, block_length, i)
             rest == region_blocks(region, block_length, i + 1)
         IN  IF AllUnprogrammed(b.data) THEN rest ELSE <<b>> \o rest

RECURSIVE Image_programmable_blocks_Unfiltered(_, _)
\* a variant of programmable_blocks that yields every whole chunk
Image_programmable_blocks_Unfiltered(img, block_length) ==
    IF img = <<>> THEN <<>>
    ELSE [i \in 1..(Len(Head(img).data) \div block_length) |->
             chunk(Head(img), block_length, i - 1)]
         \o Image_programmable_blocks_Unfiltered(Tail(img), block_length)

RECURSIVE Image_programmable_blocks(_, _)
\* Image::programmable_blocks: flat_map over the regions in their order
Image_programmable_blocks(img, block_length) ==
    IF img = <<>> THEN <<>>
    ELSE region_blocks(Head(img), block_length, 0)
         \o Image_programmable_blocks(Tail(img), block_length)

(* A specification of the image alone: built from a list of ranges, then  *)
(* filled by add_data and read by programmable_blocks.  borrows counts    *)
(* the add_data calls; last.arg.before is the image before the call.      *)

MaxAddData == 2
MaxBlockLength == 4

Range(lo, hi) == [lo |-> lo, hi |-> hi]

\* two regions apart, in both orders; one region; no region; two ranges
\* that share addresses, in both orders
RangeLists ==
    { <<>>,
      <<Range(0, 5)>>,
      <<Range(0, 3), Range(8, 12)>>,
      <<Range(8, 12), Range(0, 3)>>,
      <<Range(0, 5), Range(4, 9)>>,
      <<Range(4, 9), Range(0, 5)>> }

ImageAddresses == 0..13

ImageData ==
    { <<>>, <<17>>, <<255>>, <<34, 51>>, <<255, 68>>, <<85, 255, 102>>,
      <<1, 2, 3, 4, 5>> }

InitImage ==
    /\ phase = "Image"
    /\ wire = <<>>
    /\ \E regions \in RangeLists :
          /\ image = Image_new(regions)
          /\ last = [op |-> "new", tag |-> "ok", val |-> NoValue,
                     from |-> "Image", start |-> 0,
                     arg |-> [regions |-> regions]]
    /\ baud = 9600
    /\ borrows = 0
    /\ loops = 0
    /\ ioFailed = FALSE
    /\ overflowChecks \in BOOLEAN

\* image.add_data(address, data)
add_data ==
    /\ phase = "Image"
    /\ borrows < MaxAddData
    /\ \E address \in ImageAddresses, data \in ImageData :
          LET r == Image_add_data(image, address, data)
          IN  /\ image' = r.image
              /\ phase' = IF r.panic THEN None ELSE "Image"
              /\ last' = [op |-> "add_data",
                          tag |-> IF r.panic THEN "panic" ELSE "ok",
                          val |-> NoValue, from |-> "Image", start |-> 0,
                          arg |-> [address |-> address, data |-> data,
                                   before |-> image]]
    /\ borrows' = borrows + 1
    /\ UNCHANGED <<wire, baud, loops, ioFailed, overflowChecks>>

\* image.programmable_blocks(block_length).collect()
programmable_blocks ==
    /\ phase = "Image"
    /\ \E block_length \in 1..MaxBlockLength :
          last' = [op |-> "programmable_blocks", tag |-> "ok",
                   val |-> Image_programmable_blocks(image, block_length),
                   from |-> "Image", start |-> 0,
                   arg |-> [block_length |-> block_length]]
    /\ UNCHANGED <<phase, wire, baud, borrows, loops, ioFailed, overflowChecks, image>>

NextImage == add_data \/ programmable_blocks

SpecImage == InitImage /\ [][NextImage]_vars

----------------------------------------------------------------------------
(* The connection string of the command line tool: key=value pairs         *)
(* separated by ';' (src/src/bin/rxprog-cli/connection_string.rs).         *)
(* A string is a sequence of characters.                                   *)

KV_PAIR_DELIMETER == ";"
KV_DELIMETER == "="

RECURSIVE split(_, _)
\* str::split: the pieces between the delimiters, one more than delimiters
split(s, delimiter) ==
    LET D == {i \in 1..Len(s) : s[i] = delimiter} IN
    IF D = {} THEN <<s>>
    ELSE LET i == CHOOSE i \in D : \A j \in D : i <= j
         IN  <<SubSeq(s, 1, i - 1)>> \o split(SubSeq(s, i + 1, Len(s)), delimiter)

Ok(v) == [ok |-> TRUE, err |-> "", value |-> v]
Err(e) == [ok |-> FALSE, err |-> e, value |-> <<>>]

\* the closure of try_from for one segment: Ok(<<>>) stands for Ok(None),
\* Ok(<<key, value>>) for Ok(Some((key, value)))
kv_pair_parse(kv_pair) ==
    IF Len(kv_pair) = 0 THEN Ok(<<>>)
    ELSE LET kv_parts == split(kv_pair, KV_DELIMETER) IN
         IF Len(kv_parts) = 1 THEN Err("no key/value delimeter")
         ELSE IF Len(kv_parts) = 2
              THEN IF Len(kv_parts[1]) = 0 THEN Err("empty key")
                   ELSE Ok(<<kv_parts[1], kv_parts[2]>>)
              ELSE Err("more than one key/value delimeter in one key/value pair")

RECURSIVE collect(_)
\* filter_map(Result::transpose).collect::<Result<Vec<_>, _>>(): the pairs
\* in order, or the error of the first segment that has one
collect(segments) ==
    IF segments = <<>> THEN Ok(<<>>)
    ELSE LET r == kv_pair_parse(Head(segments)) IN
         IF ~r.ok THEN r
         ELSE LET rest == collect(Tail(segments)) IN
              IF ~rest.ok THEN rest
              ELSE Ok((IF r.value = <<>> THEN <<>> ELSE <<r.value>>) \o rest.value)

RECURSIVE insert_all(_, _)
\* the loop over the pairs: data is the HashMap so far, a function of keys
insert_all(pairs, data) ==
    IF pairs = <<>> THEN Ok(data)
    ELSE LET key == Head(pairs)[1]
             value == Head(pairs)[2]
         IN  IF key \in DOMAIN data THEN Err("duplicate key")
             ELSE insert_all(Tail(pairs),
                             [k \in DOMAIN data \cup {key} |->
                                 IF k = key THEN value ELSE data[k]])

\* HashMap::new()
EmptyMap == [k \in {} |-> <<>>]

RECURSIVE try_from_Eager(_, _)
\* a variant of try_from that looks for the key of a pair as soon as the
\* pair is parsed
try_from_Eager(segments, data) ==
    IF segments = <<>> THEN Ok(data)
    ELSE LET r == kv_pair_parse(Head(segments)) IN
         IF ~r.ok THEN r
         ELSE IF r.value = <<>> THEN try_from_Eager(Tail(segments), data)
         ELSE IF r.value[1] \in DOMAIN data THEN Err("duplicate key")
         ELSE try_from_Eager(Tail(segments),
                             [k \in DOMAIN data \cup {r.value[1]} |->
                                 IF k = r.value[1] THEN r.value[2] ELSE data[k]])

\* ConnectionString::try_from, given the segments of the string
try_from_segments(segments, data) ==
    LET pairs == collect(segments) IN
    IF ~pairs.ok THEN pairs ELSE insert_all(pairs.value, data)

\* ConnectionString::try_from
try_from(s) == try_from_segments(split(s, KV_PAIR_DELIMETER), EmptyMap)

Some(v) == [some |-> TRUE, value |-> v]
NoneOption == [some |-> FALSE, value |-> <<>>]

\* ConnectionString::get
get(data, key) == IF key \in DOMAIN data THEN Some(data[key]) ELSE NoneOption

(* A specification of the connection string alone: a string is parsed and *)
(* keys are looked up in the result.  last.arg.s is the string,           *)
(* last.val the result of try_from, last.arg.key and last.got the key     *)
(* looked up last and what get returned for it.                           *)

MaxStr == 7

Chars == {";", "=", "a", "b"}

RECURSIVE StringsOf(_, _)
StringsOf(C, n) ==
    IF n = 0 THEN {<<>>}
    ELSE LET S == StringsOf(C, n - 1)
         IN  S \cup {Append(s, c) : s \in {t \in S : Len(t) = n - 1}, c \in C}

Strings == StringsOf(Chars, MaxStr)

LookupKeys == StringsOf({"a", "b"}, 2)

InitString ==
    /\ phase = "String"
    /\ wire = <<>>
    /\ \E s \in Strings :
          last = [op |-> "String", tag |-> "ok", val |-> NoValue,
                  from |-> "String", start |-> 0,
                  arg |-> [s |-> s, key |-> <<>>], got |-> NoValue]
    /\ baud = 9600
    /\ borrows = 0
    /\ loops = 0
    /\ ioFailed = FALSE
    /\ overflowChecks = FALSE
    /\ image = <<>>

\* ConnectionString::try_from(s)
parse_string ==
    /\ phase = "String"
    /\ LET r == try_from(last.arg.s)
       IN  /\ last' = [last EXCEPT !.op = "try_from", !.val = r,
                                   !.tag = IF r.ok THEN "ok" ELSE "err"]
           /\ phase' = IF r.ok THEN "ConnectionString" ELSE "Err"
    /\ UNCHANGED <<wire, baud, borrows, loops, ioFailed, overflowChecks, image>>

\* connection_string.get(key)
get_key ==
    /\ phase = "ConnectionString"
    /\ \E key \in LookupKeys :
          last' = [last EXCEPT !.op = "get", !.arg.key = key,
                               !.got = get(last.val.value, key)]
    /\ UNCHANGED <<phase, wire, baud, borrows, loops, ioFailed, overflowChecks, image>>

NextString == parse_string \/ get_key

SpecString == InitString /\ [][NextString]_vars

(* The mr field of the connection string of the command line tool         *)
(* (src/src/bin/rxprog-cli/main.rs): each ratio is 'x' or '/' and a       *)
(* number; it is parsed, sent as a byte of NewBitRateSelection, and the   *)
(* byte is read as the wire encoding reads it                             *)

Digits == <<"0", "1", "2", "3", "4", "5", "6", "7", "8", "9">>
DigitValue(ch) == (CHOOSE d \in 1..10 : Digits[d] = ch) - 1
IsDigit(ch) == \E d \in 1..10 : Digits[d] = ch

RECURSIVE Decimal(_)
\* the decimal text of a number
Decimal(n) == IF n < 10 THEN <<Digits[n + 1]>>
              ELSE Append(Decimal(n \div 10), Digits[(n % 10) + 1])

RECURSIVE DecimalValue(_)
DecimalValue(text) ==
    IF text = <<>> THEN 0
    ELSE 10 * DecimalValue(SubSeq(text, 1, Len(text) - 1)) + DigitValue(text[Len(text)])

\* str::parse::<u8>: digits after an optional '+', no more than 255
parse_u8(text) ==
    LET digits == IF text # <<>> /\ text[1] = "+" THEN Tail(text) ELSE text IN
    IF digits = <<>> \/ \E i \in 1..Len(digits) : ~IsDigit(digits[i]) THEN Err("parse")
    ELSE IF Len(digits) > 3 \/ DecimalValue(digits) > 255 THEN Err("parse")
    ELSE Ok(DecimalValue(digits))

\* the closure of main2 for one ratio of the field
mr_parse(mrs) ==
    IF Len(mrs) < 2 THEN Err("()")
    ELSE LET c == mrs[1]
             ratio == parse_u8(Tail(mrs))
         IN  IF ~ratio.ok THEN Err("()")
             ELSE IF c = "x" THEN Ok(MultiplyBy(ratio.value))
             ELSE IF c = "/" THEN Ok(DivideBy(ratio.value))
             ELSE Err("()")

\* the largest number written in a field
MaxMr == 260

MrFields ==
    {<<c>> \o Decimal(n) : c \in {"x", "/", "m"}, n \in 0..MaxMr}
    \cup {<<>>, <<"x">>, <<"/", "+", "5">>, <<"x", "0", "1", "2">>, <<"x", "a">>,
          <<"/", "1", "x">>}

InitMr ==
    /\ phase = "Field"
    /\ wire = <<>>
    /\ \E mrs \in MrFields :
          last = [op |-> "new", tag |-> "ok", val |-> NoValue,
                  from |-> "str", start |-> 0, arg |-> NoValue, field |-> mrs]
    /\ baud = 9600
    /\ borrows = 0
    /\ loops = 0
    /\ ioFailed = FALSE
    /\ overflowChecks \in BOOLEAN
    /\ image = <<>>

\* one ratio of the field is parsed; into_u8 then sends it
parse_mr ==
    /\ phase = "Field"
    /\ LET r == mr_parse(last.field)
       IN  IF r.ok
           THEN /\ last' = [last EXCEPT !.op = "parse_mr", !.val = r.value,
                                        !.arg = r.value,
                                        !.from = "MultiplicationRatio"]
                /\ phase' = "MultiplicationRatio"
           ELSE /\ last' = [last EXCEPT !.op = "parse_mr", !.tag = "err"]
                /\ phase' = "Err"
    /\ UNCHANGED <<wire, baud, borrows, loops, ioFailed, overflowChecks, image>>

NextMr ==
    \/ parse_mr
    \/ into_u8
    \/ from_u8

SpecMr == InitMr /\ [][NextMr]_vars

----------------------------------------------------------------------------
(* The program and verify workflow of the command line tool               *)
(* (src/src/main.rs): after the bit rate was set the image is built, then *)
(* each programmable block of 256 bytes is programmed and, after end(),   *)
(* read back.  Any error ends the tool: an I/O error by `?`, a domain     *)
(* error by expect.  borrows counts the blocks programmed and read back,  *)
(* loops is 1 once end() has returned.                                    *)

BlockLength == 256

\* the u32 of an address of the image
AsU32(address) == U32(address \div 65536, address % 65536)

\* the blocks both loops of main iterate over
Blocks == Image_programmable_blocks(image, BlockLength)

RECURSIVE add_all(_, _)
\* the add_data calls of main for the data records of the file, in order;
\* a panic of one of them ends the tool
add_all(img, records) ==
    IF records = <<>> THEN [panic |-> FALSE, image |-> img]
    ELSE LET r == Image_add_data(img, Head(records).address, Head(records).data)
         IN  IF r.panic THEN r ELSE add_all(r.image, Tail(records))

Record(address, data) == [address |-> address, data |-> data]

\* user areas of three blocks, of two blocks and a half, and of two regions
UserAreas ==
    { <<Range(0, 767)>>, <<Range(0, 639)>>, <<Range(0, 255), Range(512, 767)>> }

\* image files: no data; one block; two blocks, the later first; data over
\* the boundary of two blocks; data in the last half block; a block whose
\* frame sums to 0 before its checksum (0x50 + 0x04 + 0xAB + 255 * 0xFF)
RecordLists ==
    { <<>>,
      <<Record(0, <<165>>)>>,
      <<Record(600, <<1, 2>>), Record(0, <<165>>)>>,
      <<Record(255, <<3, 4>>)>>,
      <<Record(520, <<9>>), Record(530, <<255>>)>>,
      <<Record(0, <<171>>), Record(513, <<7>>)>> }

\* main's handling of a call: anything but success ends the tool
Step(op, o, to, arg) ==
    /\ wire' = wire \o o.ev
    /\ phase' = IF o.tag = "ok" THEN to ELSE None
    /\ last' = Called(op, o, arg)
    /\ ioFailed' = (ioFailed \/ o.tag = "io")
    /\ UNCHANGED <<baud, overflowChecks, image>>

InitWorkflow ==
    /\ phase = ProgrammerConnectedNewBitRateSelected
    /\ wire = <<>>
    /\ \E areas \in UserAreas, records \in RecordLists :
          LET r == add_all(Image_new(areas), records)
          IN  /\ ~r.panic
              /\ image = r.image
              /\ last = [op |-> "add_data", tag |-> "ok", val |-> NoValue,
                         from |-> ProgrammerConnectedNewBitRateSelected,
                         start |-> 0, arg |-> records]
    /\ baud = 9600
    /\ borrows = 0
    /\ loops = 0
    /\ ioFailed = FALSE
    /\ overflowChecks \in BOOLEAN

\* prog.programming_erasure_state_transition()?
main_transition ==
    /\ phase = ProgrammerConnectedNewBitRateSelected
    /\ \E reply \in {<<38>>, <<22>>, <<>>}, fault \in BorrowFaults :
          Step("programming_erasure_state_transition",
               programming_erasure_state_transition_run(reply, fault, overflowChecks),
               ProgrammerConnectedProgrammingErasureState, 0)
    /\ UNCHANGED <<borrows, loops>>

\* prog.program_user_or_data_area()?
main_select ==
    /\ phase = ProgrammerConnectedProgrammingErasureState
    /\ loops = 0
    /\ \E reply \in {<<6>>, <<119>>, <<>>}, fault \in BorrowFaults :
          Step("program_user_or_data_area",
               program_user_or_data_area_run(reply, fault, overflowChecks),
               ProgrammerConnectedWaitingForData, 0)
    /\ UNCHANGED <<borrows, loops>>

\* one turn of the first loop:
\* prog.program_block(block.start_address, data)?.expect(..)
main_program_block ==
    /\ phase = ProgrammerConnectedWaitingForData
    /\ borrows < Len(Blocks)
    /\ LET block == Blocks[borrows + 1] IN
       \E reply \in {<<6>>, <<208, 42>>, <<208, 153>>, <<>>}, fault \in BorrowFaults :
          Step("program_block",
               unwrap(program_block_run(AsU32(block.start_address), block.data,
                                        reply, fault, overflowChecks)),
               ProgrammerConnectedWaitingForData, block)
    /\ borrows' = borrows + 1
    /\ UNCHANGED loops

\* prog.end()? after the first loop
main_end ==
    /\ phase = ProgrammerConnectedWaitingForData
    /\ borrows = Len(Blocks)
    /\ \E reply \in {<<6>>, <<208, 83>>, <<>>}, fault \in BorrowFaults :
          Step("end", end_run(reply, fault, overflowChecks),
               ProgrammerConnectedProgrammingErasureState, 0)
    /\ loops' = 1
    /\ UNCHANGED borrows

\* one turn of the second loop:
\* prog.read_memory(UserArea, block.start_address, block.data.len())?.expect(..)
\* the device returns the block, other data, or an error
main_verify ==
    /\ phase = ProgrammerConnectedProgrammingErasureState
    /\ loops = 1
    /\ borrows < 2 * Len(Blocks)
    /\ LET block == Blocks[borrows - Len(Blocks) + 1] IN
       \E reply \in {SizedFrame(82, 4, block.data) \o <<0>>,
                     SizedFrame(82, 4, [i \in 1..BlockLength |-> 0]) \o <<0>>,
                     <<210, 42>>, <<>>},
          fault \in BorrowFaults :
          Step("read_memory",
               unwrap(read_memory_run("UserArea", AsU32(block.start_address),
                                      AsU32(Len(block.data)),
                                      reply, fault, overflowChecks)),
               ProgrammerConnectedProgrammingErasureState, block)
    /\ borrows' = borrows + 1
    /\ UNCHANGED loops

NextWorkflow ==
    main_transition \/ main_select \/ main_program_block \/ main_end \/ main_verify

SpecWorkflow == InitWorkflow /\ [][NextWorkflow]_vars

----------------------------------------------------------------------------
(* Properties of the image (checked under SpecImage) *)

\* the byte an image holds for address x in its region q
ByteAt(img, q, x) == img[q].data[x - img[q].lo + 1]

\* the image before the add_data call made last, its address and its data
ImageBefore == last.arg.before
DataAddress == last.arg.address
Data == last.arg.data

\* C22: a new image holds 0xFF at every address of every region, and a
\* successful add_data(address, data) changes exactly the bytes at address ..
\* address + len - 1 of one region whose range contains them, to data in
\* order; every other byte and every range is as before
C22_AddDataChangesItsRange ==
    /\ last.op = "new" =>
           \A q \in 1..Len(image) : \A j \in 1..Len(image[q].data) :
               image[q].data[j] = 255
    /\ (last.op = "add_data" /\ last.tag = "ok") =>
           /\ Len(image) = Len(ImageBefore)
           /\ \A q \in 1..Len(image) :
                  /\ image[q].lo = ImageBefore[q].lo
                  /\ image[q].hi = ImageBefore[q].hi
                  /\ Len(image[q].data) = Len(ImageBefore[q].data)
           /\ \E r \in 1..Len(image) :
                  /\ image[r].lo <= DataAddress
                  /\ DataAddress + Len(Data) - 1 <= image[r].hi
                  /\ \A q \in 1..Len(image) : \A x \in image[q].lo..image[q].hi :
                         ByteAt(image, q, x) =
                             IF q = r /\ DataAddress <= x /\ x < DataAddress + Len(Data)
                             THEN Data[x - DataAddress + 1]
                             ELSE ByteAt(ImageBefore, q, x)

\* data of two bytes was added inside the second of two regions, not at its
\* start, over an image that already held data
C22_Witness ==
    /\ last.op = "add_data" /\ last.tag = "ok"
    /\ borrows = 2
    /\ Len(image) = 2
    /\ Len(Data) >= 2
    /\ image[2].lo < DataAddress /\ DataAddress <= image[2].hi
    /\ image[1].hi < image[2].lo
    /\ image /= ImageBefore
    /\ \E j \in 1..Len(image[1].data) : image[1].data[j] /= 255

\* C23: add_data is fatal when the address lies in no region, or when
\* address + len - 1 lies beyond the end of every region containing the
\* address; the image is then as before, no byte copied
C23_AddDataOutOfRangeFatal ==
    last.op = "add_data" =>
        ((\A q \in 1..Len(ImageBefore) :
              (ImageBefore[q].lo <= DataAddress /\ DataAddress <= ImageBefore[q].hi)
                  => DataAddress + Len(Data) - 1 > ImageBefore[q].hi)
            => (last.tag = "panic" /\ phase = None /\ image = ImageBefore))

\* data that starts inside a region and ends beyond it was refused, over an
\* image that already held data
C23_Witness ==
    /\ last.op = "add_data" /\ last.tag = "panic"
    /\ borrows = 2
    /\ Len(Data) >= 2
    /\ \E q \in 1..Len(image) :
           /\ image[q].lo <= DataAddress /\ DataAddress < image[q].hi
           /\ DataAddress + Len(Data) - 1 > image[q].hi
           /\ Data[1] /= ByteAt(image, q, DataAddress)
    /\ \E q \in 1..Len(image) : \E j \in 1..Len(image[q].data) :
           image[q].data[j] /= 255

\* the whole chunks of an image that hold a byte other than 0xFF, as pairs
\* of region and chunk number
Programmable(img, block_length) ==
    UNION {{<<q, i>> : i \in {i \in 0..Len(img[q].data) :
                /\ (i + 1) * block_length <= Len(img[q].data)
                /\ \E j \in 1..block_length :
                       img[q].data[i * block_length + j] /= 255}} :
           q \in 1..Len(img)}

\* region by region, and by ascending chunk number inside a region
Earlier(p1, p2) == p1[1] < p2[1] \/ (p1[1] = p2[1] /\ p1[2] < p2[2])

\* C24: programmable_blocks(block_length) yields, region by region in the
\* order of the regions and ascending inside a region, exactly the chunks
\* i < floor(len / block_length) that hold a byte other than 0xFF, each with
\* start_address = region start + i * block_length and the block_length
\* bytes of the chunk; a chunk of 0xFF only and the tail are in no block
C24_BlocksAreTheProgrammedChunks ==
    last.op = "programmable_blocks" =>
        LET block_length == last.arg.block_length
            P == Programmable(image, block_length)
        IN  /\ Len(last.val) = Cardinality(P)
            /\ \A p \in P :
                   LET k == Cardinality({p2 \in P : Earlier(p2, p)}) + 1
                   IN  /\ last.val[k].start_address =
                              image[p[1]].lo + p[2] * block_length
                       /\ Len(last.val[k].data) = block_length
                       /\ \A j \in 1..block_length :
                              last.val[k].data[j] =
                                  image[p[1]].data[p[2] * block_length + j]

\* blocks of two bytes came from both of two regions, a chunk of 0xFF only
\* was skipped, and a tail byte that is not 0xFF is in no block
C24_Witness ==
    /\ last.op = "programmable_blocks"
    /\ last.arg.block_length = 2
    /\ Len(image) = 2
    /\ Len(last.val) = 2
    /\ last.val[1].start_address <= image[1].hi
    /\ last.val[2].start_address > image[2].lo
    /\ Len(image[2].data) = 5
    /\ image[2].data[5] /= 255
    /\ image[2].data[1] = 255 /\ image[2].data[2] = 255

\* C25: the regions of an image are pairwise disjoint, each holds
\* hi - lo + 1 bytes, and add_data changes neither the number of regions
\* nor a range nor a byte count
C25_RegionsDisjointAndFixed ==
    /\ \A p, q \in 1..Len(image) :
           p /= q => (image[p].hi < image[q].lo \/ image[q].hi < image[p].lo)
    /\ \A q \in 1..Len(image) :
           Len(image[q].data) = image[q].hi - image[q].lo + 1
    /\ last.op = "add_data" =>
           /\ Len(image) = Len(ImageBefore)
           /\ \A q \in 1..Len(image) :
                  /\ image[q].lo = ImageBefore[q].lo
                  /\ image[q].hi = ImageBefore[q].hi
                  /\ Len(image[q].data) = Len(ImageBefore[q].data)

----------------------------------------------------------------------------
(* Properties of the connection string (checked under SpecString) *)

\* the string given to try_from
TheString == last.arg.s

\* the positions that bound a segment: before the string, each ';', after it
Bounds == {0, Len(TheString) + 1} \cup {i \in 1..Len(TheString) : TheString[i] = ";"}

\* the segments, each as the pair of the bounds around it
Segments == {g \in Bounds \X Bounds :
                g[1] < g[2] /\ \A i \in Bounds : ~(g[1] < i /\ i < g[2])}

\* the positions of '=' inside a segment
Delimiters(g) == {i \in (g[1] + 1)..(g[2] - 1) : TheString[i] = "="}

KeyOf(g) == SubSeq(TheString, g[1] + 1, (CHOOSE i \in Delimiters(g) : TRUE) - 1)
ValueOf(g) == SubSeq(TheString, (CHOOSE i \in Delimiters(g) : TRUE) + 1, g[2] - 1)

\* a segment that gives a pair: exactly one '=' and a key before it
Pair(g) == Cardinality(Delimiters(g)) = 1 /\ KeyOf(g) /= <<>>

\* a segment that is neither empty nor a pair
Offending(g) == g[2] - g[1] > 1 /\ ~Pair(g)

ErrorOf(g) ==
    IF Delimiters(g) = {} THEN "no key/value delimeter"
    ELSE IF Cardinality(Delimiters(g)) = 1 THEN "empty key"
    ELSE "more than one key/value delimeter in one key/value pair"

DuplicateKey == \E g, h \in Segments :
                    g /= h /\ Pair(g) /\ Pair(h) /\ KeyOf(g) = KeyOf(h)

\* C28: try_from succeeds exactly when every segment that is not empty has
\* exactly one '=' with a key before it and no key occurs twice; it fails
\* with the error of the first offending segment, and with 'duplicate key'
\* only when no segment offends; on success get(k) returns the value given
\* for k, and None for a key not given
C28_ConnectionStringParsed ==
    /\ last.op \in {"try_from", "get"} =>
           /\ last.val.ok <=> (~DuplicateKey /\ \A g \in Segments : ~Offending(g))
           /\ ~last.val.ok =>
                  IF \E g \in Segments : Offending(g)
                  THEN \E g \in Segments :
                          /\ Offending(g)
                          /\ \A h \in Segments : Offending(h) => g[1] <= h[1]
                          /\ last.val.err = ErrorOf(g)
                  ELSE last.val.err = "duplicate key"
    /\ last.op = "get" =>
           IF \E g \in Segments : Pair(g) /\ KeyOf(g) = last.arg.key
           THEN \E g \in Segments :
                   /\ Pair(g) /\ KeyOf(g) = last.arg.key
                   /\ last.got = [some |-> TRUE, value |-> ValueOf(g)]
           ELSE last.got.some = FALSE

\* a string with the same key in two pairs and a later segment without '='
\* was refused for the missing '='
C28_Witness ==
    /\ last.op = "try_from"
    /\ DuplicateKey
    /\ \E g \in Segments : Offending(g)
    /\ last.val.err = "no key/value delimeter"

----------------------------------------------------------------------------
(* Properties of the program and verify workflow (checked under           *)
(* SpecWorkflow)                                                          *)

\* the frame of the end marker
EndFrame ==
    bytes(X256ByteProgramming_command_data(end_address, end_data), FALSE).bytes

\* the frame that programs a block, and the one that reads it back
ProgramFrame(block) ==
    bytes(X256ByteProgramming_command_data(AsU32(block.start_address), block.data),
          FALSE).bytes
VerifyFrame(block) ==
    bytes(MemoryRead_command_data("UserArea", AsU32(block.start_address),
                                  U32(0, 256)), FALSE).bytes

\* where on the wire the frames with a given first byte were written
Written(opcode) ==
    {i \in 1..Len(wire) : wire[i].ev = "write" /\ wire[i].b[1] = opcode}

DataFrames == {i \in Written(80) : wire[i].b /= EndFrame}
EndMarkers == {i \in Written(80) : wire[i].b = EndFrame}
MemoryReads == Written(82)

\* the frame written at i was answered by the byte 0x06
Acknowledged(i) == i < Len(wire) /\ wire[i + 1] = Rx(<<6>>)

\* the k-th of a set of positions, in the order of the wire
Rank(S, i) == Cardinality({j \in S : j <= i})

\* the tool stopped on an error of the port, or after the frame of its last
\* call was written, on what the device answered
StoppedByDeviceOrPort ==
    last.tag \in {"io", "domain"} \/ Len(wire) > last.start

\* the order of the frames: data frames are those of the blocks, in order,
\* after the acknowledged 0x43 and before the one end marker; memory reads
\* are those of the blocks, in order, after the acknowledged end marker
C30_FramesInOrder ==
    /\ Cardinality(DataFrames) <= Len(Blocks)
    /\ \A i \in DataFrames :
           /\ wire[i].b = ProgramFrame(Blocks[Rank(DataFrames, i)])
           /\ \E block \in {Blocks[k] : k \in 1..Len(Blocks)} :
                  \E j \in 1..256 : block.data[j] /= 255 /\ wire[i].b[6 + j] = block.data[j]
           /\ \E j \in Written(67) : j < i /\ Acknowledged(j)
           /\ \A j \in EndMarkers : i < j
    /\ Cardinality(EndMarkers) <= 1
    /\ EndMarkers /= {} => Cardinality(DataFrames) = Len(Blocks)
    /\ Cardinality(MemoryReads) <= Len(Blocks)
    /\ \A i \in MemoryReads :
           /\ wire[i].b = VerifyFrame(Blocks[Rank(MemoryReads, i)])
           /\ \E j \in EndMarkers : j < i /\ Acknowledged(j)
    /\ (phase = ProgrammerConnectedProgrammingErasureState /\ loops = 1
            /\ borrows = 2 * Len(Blocks)) =>
           /\ Cardinality(DataFrames) = Len(Blocks)
           /\ Cardinality(EndMarkers) = 1
           /\ Cardinality(MemoryReads) = Len(Blocks)

\* C30: in the program and verify workflow exactly one 0x50 data frame is
\* sent per block of programmable_blocks(256), in order, after the 0x43 was
\* acknowledged and before the single end marker; one MemoryRead per block,
\* with its start address and size 256, after end() succeeded; a block of
\* 0xFF only is neither programmed nor read; and for every image the tool
\* goes on to the next block unless the device or the port stops it
C30_OneFramePerBlock ==
    /\ C30_FramesInOrder
    /\ phase = None => StoppedByDeviceOrPort

----------------------------------------------------------------------------
(* Properties of the connect handshake (checked under SpecConnect) *)

\* the events of the call made last
Seg == SubSeq(wire, last.start + 1, Len(wire))

Where(seg, e) == {i \in 1..Len(seg) : seg[i] = e}
WhereEv(seg, name) == {i \in 1..Len(seg) : seg[i].ev = name}
Probe == Tx(<<0>>)

\* the probes written after the k-th baud rate change and before the next
ProbesAt(seg, k) ==
    LET B == WhereEv(seg, "set_baud_rate") IN
    {i \in Where(seg, Probe) :
        /\ Cardinality({j \in B : j < i}) = k}

\* C6: connect sets the baud rates 9600, 4800, 2400, 1200 in that order,
\* writes at most 30 probe bytes at each (and moves to the next rate only
\* after 30), never writes a probe once a byte is available, and returns
\* NoResponse exactly when all four rates were tried with 30 probes each and
\* no byte became available; at most 120 probes are written.
C6_ProbingOrder ==
    last.op = "connect" =>
        LET seg == Seg
            B == WhereEv(seg, "set_baud_rate")
            nB == Cardinality(B)
            probes == Cardinality(Where(seg, Probe))
        IN  /\ nB <= 4
            /\ \A i \in B : seg[i].n = BaudRates[Cardinality({j \in B : j <= i})]
            /\ ProbesAt(seg, 0) = {}
            /\ \A k \in 1..nB : Cardinality(ProbesAt(seg, k)) <= 30
            /\ \A k \in 1..(nB - 1) : Cardinality(ProbesAt(seg, k)) = 30
            /\ probes <= last.arg
            /\ probes <= 120
            /\ (last.val = "NoResponse")
                   <=> (/\ last.tag # "io"
                        /\ nB = 4
                        /\ \A k \in 1..4 : Cardinality(ProbesAt(seg, k)) = 30
                        /\ WhereEv(seg, "read") = {}
                        /\ last.arg >= TotalChecks)

\* all four rates were probed 30 times and connect gave up
C6_Witness ==
    /\ last.op = "connect"
    /\ last.val = "NoResponse"
    /\ Cardinality(Where(Seg, Probe)) = 120

\* C7: after probing connect reads one byte, which must be 0x00, otherwise
\* the result is BadResponse and 0x55 is not written; 0x55 is written once,
\* right after a 0x00 was read; the byte read next decides: 0xE6 Connected,
\* 0xFF Failed, anything else BadResponse; a Connected session comes out of
\* the exchange 0x00, 0x55, 0xE6 only.
C7_Handshake ==
    last.op = "connect" =>
        LET seg == Seg
            R == WhereEv(seg, "read")
            W == Where(seg, Tx(<<85>>))
            first == CHOOSE i \in R : \A j \in R : i <= j
            second == CHOOSE i \in R : \A j \in R : j <= i
        IN  /\ Cardinality(R) <= 2
            /\ \A i \in R : Len(seg[i].b) = 1
            /\ Cardinality(W) <= 1
            /\ \A i \in W : i > 1 /\ seg[i - 1] = Rx(<<0>>)
            /\ (R # {} /\ seg[first].b # <<0>>)
                   => (last.val = "BadResponse" /\ W = {} /\ Cardinality(R) = 1)
            /\ (R # {} /\ seg[first].b = <<0>> /\ last.tag # "io") => Cardinality(W) = 1
            /\ \A i \in Where(seg, Probe) : R # {} => i < first
            /\ Cardinality(R) = 2 =>
                   /\ W = {first + 1} /\ second = first + 2 /\ second = Len(seg)
                   /\ seg[second].b = <<230>> => (last.tag = "ok" /\ phase = ProgrammerConnected)
                   /\ seg[second].b = <<255>> => (last.val = "Failed" /\ phase = None)
                   /\ seg[second].b \notin {<<230>>, <<255>>}
                          => (last.val = "BadResponse" /\ phase = None)
            /\ phase = ProgrammerConnected
                   => (Cardinality(R) = 2 /\ seg[first].b = <<0>> /\ seg[second].b = <<230>>)

\* a session was produced by the handshake
C7_Witness ==
    /\ last.op = "connect"
    /\ phase = ProgrammerConnected
    /\ Where(Seg, Tx(<<85>>)) # {}

\* C32: connect asks for the reset into boot mode, then clears the buffers,
\* both before the first baud rate change and the first probe; when the
\* clearing fails connect returns an I/O error and writes no probe
C32_ClearFailurePropagated ==
    last.op = "connect" =>
        /\ Len(Seg) >= 2
        /\ Seg[1].ev = "reset_into"
        /\ Seg[2].ev = "clear_buffers"
        /\ \A i \in WhereEv(Seg, "set_baud_rate") \cup WhereEv(Seg, "write") : i > 2
        /\ Seg[2] = ClearErr => (last.tag = "io" /\ WhereEv(Seg, "write") = {})

\* C31: in connect of the revision with one baud rate, a byte that is
\* available when probing stops is read and checked; NoResponse is returned
\* only when no byte is available, also when the byte arrives in reply to
\* the 30th probe.  The first last.arg calls of bytes_to_read return 0, and
\* one call is made before each probe and one when probing stops.
C31_AvailableByteIsRead ==
    last.op = "connect_single" =>
        LET probes == Cardinality(Where(Seg, Probe))
            available == probes + 1 > last.arg
        IN  /\ last.val = "NoResponse" => ~available
            /\ (available /\ last.tag # "io") => WhereEv(Seg, "read") # {}

----------------------------------------------------------------------------
(* Properties of the session (checked under Spec) *)

PhaseRank(p) ==
    CASE p = Programmer                                 -> 0
      [] p = ProgrammerConnected                        -> 1
      [] p = ProgrammerConnectedDeviceSelected          -> 2
      [] p = ProgrammerConnectedClockModeSelected       -> 3
      [] p = ProgrammerConnectedNewBitRateSelected      -> 4
      [] p = ProgrammerConnectedProgrammingErasureState -> 5
      [] p = ProgrammerConnectedWaitingForData          -> 6
      [] OTHER                                          -> 7

\* the phase whose operations write a frame with this first byte
FramePhase(opcode) ==
    CASE opcode \in {0, 85}      -> 0
      [] opcode \in {32, 16}     -> 1
      [] opcode \in {33, 17}     -> 2
      [] opcode \in {34, 35, 63, 6} -> 3
      [] opcode \in {36, 37, 38, 64} -> 4
      [] opcode \in {67, 82}     -> 5
      [] OTHER                   -> 6

Writes == WhereEv(wire, "write")

\* C1 as stated: no operation of an earlier phase after a transition has
\* succeeded, so that the frames on the wire appear in phase order: handshake,
\* 0x10, 0x11, 0x3F and its 0x06, 0x40, 0x43, then the 0x50 blocks.
C1_PhaseOrderStrict ==
    /\ phase # None => PhaseRank(phase) >= PhaseRank(last.from)
    /\ \A i, j \in Writes :
           i < j => FramePhase(wire[i].b[1]) <= FramePhase(wire[j].b[1])

\* 0x43 and the 0x50 blocks belong to the programming cycle ProgErase ->
\* WaitingForData -> ProgErase
CyclePhase(r) == IF r >= 5 THEN 5 ELSE r

\* C1 as amended: the only transition to an earlier phase is end(), from
\* WaitingForData to ProgErase; the frames of the phases up to the 0x40
\* transition appear in phase order, each transition frame at most once, and
\* every 0x43, 0x52 and 0x50 frame comes after them.
C1_PhaseOrder ==
    /\ phase # None =>
           \/ PhaseRank(phase) >= PhaseRank(last.from)
           \/ /\ last.op = "end"
              /\ last.from = ProgrammerConnectedWaitingForData
              /\ phase = ProgrammerConnectedProgrammingErasureState
    /\ \A i, j \in Writes :
           i < j => CyclePhase(FramePhase(wire[i].b[1]))
                        <= CyclePhase(FramePhase(wire[j].b[1]))
    /\ \A op \in {16, 17, 63, 6, 64} :
           Cardinality({i \in Writes : wire[i].b[1] = op}) <= 1
    /\ \A i \in Writes : wire[i].b[1] = 80 =>
           \E j \in Writes : j < i /\ wire[j].b = <<67>>

\* a second programming loop was started after end()
C1_Witness ==
    /\ loops >= 1
    /\ last.op = "program_user_or_data_area"
    /\ phase = ProgrammerConnectedWaitingForData

\* C2: a domain error of select_device, select_clock_mode or
\* set_new_bit_rate leaves the session in the phase it was in.
C2_DomainErrorKeepsPhase ==
    (last.op \in {"select_device", "select_clock_mode", "set_new_bit_rate"}
        /\ last.tag = "domain") => phase = last.from

\* the methods that take `&mut self`
BorrowingOps ==
    {"supported_devices", "clock_modes", "multiplication_ratios",
     "operating_frequencies", "user_boot_area", "user_area", "erasure_block",
     "read_memory", "program_block"}

C3_NoWriteAfterIoFailure ==
    [][ioFailed => WhereEv(wire', "write") = WhereEv(wire, "write")]_vars

\* C4: set_new_bit_rate changes the baud rate at most once, right after the
\* 0x06 acknowledgement of NewBitRateSelection was read and right before the
\* 0x06 confirmation is written; the change and the confirmation both happen
\* when it succeeds, and neither happens on a domain error.
C4_BaudChangeBetweenAckAndConfirm ==
    /\ baud = BaudAfter(wire, 9600)
    /\ last.op = "set_new_bit_rate" =>
        LET seg == Seg
            B == WhereEv(seg, "set_baud_rate")
            C == Where(seg, Tx(<<6>>))
        IN  /\ B \subseteq {3}
            /\ C \subseteq {4}
            /\ B # {} => (seg[1].ev = "write" /\ seg[1].b[1] = 63 /\ seg[2] = Rx(<<6>>))
            /\ C # {} => B # {}
            /\ Cardinality(WhereEv(seg, "write")) <= 2
            /\ last.tag = "ok" => (B = {3} /\ C = {4} /\ seg[5] = Rx(<<6>>))
            /\ last.tag = "domain" =>
                   (B = {} /\ C = {} /\ Len(seg) = 2 /\ seg[2].b[1] = 191)

\* the bit rate was changed and confirmed
C4_Witness ==
    /\ last.op = "set_new_bit_rate"
    /\ last.tag = "ok"
    /\ WhereEv(Seg, "set_baud_rate") # {}

\* C5: the baud rate passed to set_baud_rate is bit_rate x 100.
C5_BaudIsBitRateTimes100 ==
    last.op = "set_new_bit_rate" =>
        \A i \in WhereEv(Seg, "set_baud_rate") : Seg[i].n = last.arg * 100

\* C8: a ProgErase session comes out of the transition only on the reply
\* 0x26; after the reply 0x16 the call has panicked, no session is left and
\* nothing further is written.
C8_NoSessionWhenProtected ==
    /\ (last.op = "programming_erasure_state_transition"
            /\ phase = ProgrammerConnectedProgrammingErasureState)
           => Seg = <<Tx(<<64>>), Rx(<<38>>)>>
    /\ \A i \in Where(wire, Tx(<<64>>)) :
           (i < Len(wire) /\ wire[i + 1] = Rx(<<22>>))
               => (i + 1 = Len(wire) /\ phase = None /\ last.tag = "panic")

\* the device reported ID code protection enabled
C8_Witness ==
    /\ last.op = "programming_erasure_state_transition"
    /\ Seg = <<Tx(<<64>>), Rx(<<22>>)>>

\* C9: the reply 0xC0 0x51 comes back to the caller as the IDCodeMismatch
\* domain error.
C9_IdCodeMismatchIsDomainError ==
    (last.op = "programming_erasure_state_transition"
        /\ Seg = <<Tx(<<64>>), Rx(<<192, 81>>)>>)
        => (last.tag = "domain" /\ last.val = "IDCodeMismatch")

\* C10: a WaitingForData session turns into another session only by end(),
\* which writes one 0x50 frame of 263 bytes with the address 0xFFFFFFFF and,
\* on the reply 0x06, yields ProgErase; whatever end() returns, the
\* WaitingForData session is gone.
C10_EndLeavesLoop ==
    /\ (last.from = ProgrammerConnectedWaitingForData
            /\ phase \notin {ProgrammerConnectedWaitingForData, None})
           => (last.op = "end" /\ last.tag = "ok"
               /\ phase = ProgrammerConnectedProgrammingErasureState)
    /\ last.op = "end" =>
           /\ phase \in {ProgrammerConnectedProgrammingErasureState, None}
           /\ Cardinality(WhereEv(Seg, "write")) <= 1
           /\ \A i \in WhereEv(Seg, "write") :
                  /\ i = 1
                  /\ Len(Seg[i].b) = 263
                  /\ SubSeq(Seg[i].b, 1, 6) = <<80, 4, 255, 255, 255, 255>>
           /\ last.tag = "ok" =>
                  /\ Len(Seg) = 2 /\ Seg[1].ev = "write" /\ Seg[2] = Rx(<<6>>)
                  /\ phase = ProgrammerConnectedProgrammingErasureState

\* end() was acknowledged and the session is in ProgErase again
C10_Witness ==
    /\ last.op = "end"
    /\ last.tag = "ok"
    /\ phase = ProgrammerConnectedProgrammingErasureState
    /\ loops = 1

----------------------------------------------------------------------------
(* Properties of the encoder (under SpecCodec) *)

\* the frame written by the encoder
Encoded == wire[1].b

\* C11: the encoding of a CommandData with a non-empty payload ends in a
\* checksum byte that makes the sum of all encoded bytes 0 modulo 256; an
\* empty payload is encoded without a checksum byte.
C11_ChecksumZeroSum ==
    last.op = "bytes" =>
        LET cd == last.arg
            n == Len(cd.payload)
            h == IF cd.has_size_field THEN 2 ELSE 1
        IN  /\ last.tag = "ok"
            /\ n # 0 => (Len(Encoded) = h + n + 1 /\ SumBytes(Encoded) = 0)
            /\ n = 0 => Len(Encoded) = h

\* C12: with a size field and a payload of length L in 0..255 the byte
\* after the opcode is L, and the checksum byte is left out exactly when the
\* payload is empty.
C12_SizeByteIsLength ==
    (last.op = "bytes" /\ last.arg.has_size_field /\ Len(last.arg.payload) <= 255) =>
        LET L == Len(last.arg.payload) IN
            /\ last.tag = "ok"
            /\ Encoded[1] = last.arg.opcode
            /\ Encoded[2] = L
            /\ (Len(Encoded) = L + 2) <=> (L = 0)
            /\ L # 0 => Len(Encoded) = L + 3

C14_LongPayloadRejected ==
    (last.op = "bytes" /\ last.arg.has_size_field) =>
        /\ Len(last.arg.payload) > 255 => (last.tag # "ok" /\ wire = <<>>)
        /\ wire # <<>> => Encoded[2] = Len(last.arg.payload)

----------------------------------------------------------------------------
(* Properties of the reader (under SpecReader) *)

\* the reader used, the stream it read from and what it returned
TheReader == last.arg.rd
Stream    == last.arg.stream
Returned  == last.val
\* the length announced by the length field after the first byte
Announced == from_be_bytes(SubSeq(Stream, 2, 1 + TheReader.width))

\* C16: a sized response consumes, after its first byte, the W length bytes,
\* the n data bytes they announce and one checksum byte, and yields those n
\* data bytes; a simple response consumes 1 byte and an error response 2;
\* when fewer than n + 1 bytes follow the length field the read fails.
C16_BytesConsumed ==
    last.op = "read_response" =>
        /\ (Returned.tag = "ok" /\ TheReader.shape = "simple") => Returned.used = 1
        /\ Returned.tag = "err" => Returned.used = 2
        /\ (Returned.tag = "ok" /\ TheReader.shape = "sized") =>
               /\ Len(Stream) >= 1 + TheReader.width
               /\ Returned.used = 1 + TheReader.width + Announced + 1
               /\ Returned.used <= Len(Stream)
               /\ Returned.data
                      = SubSeq(Stream, TheReader.width + 2, TheReader.width + 1 + Announced)
        /\ (/\ TheReader.shape = "sized"
            /\ Len(Stream) >= 1 + TheReader.width
            /\ Stream[1] \in TheReader.valid
            /\ Stream[1] # TheReader.err
            /\ Len(Stream) - 1 - TheReader.width < Announced + 1)
               => Returned.tag = "io"

\* C17: the first byte is tried as the error first byte, then as a success
\* first byte, and is fatal otherwise; after the error first byte one more
\* byte is read and returned as the error code; a reader without an error
\* first byte returns no error code.
C17_FirstByteClassified ==
    last.op = "read_response" =>
        /\ Returned.tag = "err" =>
               /\ TheReader.err # NoErrorByte
               /\ Len(Stream) >= 2
               /\ Stream[1] = TheReader.err
               /\ Returned.code = Stream[2]
        /\ (Returned.tag = "ok" /\ Stream # <<>>) =>
               (Stream[1] \in TheReader.valid /\ Stream[1] # TheReader.err)
        /\ (Stream # <<>> /\ last.arg.fault = NoFault) =>
               /\ Stream[1] = TheReader.err => Returned.tag = "err"
               /\ Stream[1] \notin TheReader.valid \cup {TheReader.err}
                      => Returned.tag = "panic"
               /\ (Stream[1] \in TheReader.valid /\ Stream[1] # TheReader.err
                       /\ TheReader.shape = "simple") => Returned.tag = "ok"
        /\ TheReader.err = NoErrorByte => Returned.tag # "err"

\* C18: when no byte arrives for the first byte, or for the error code,
\* read_response returns an I/O error.
C18_NoByteIsIoError ==
    last.op = "read_response" =>
        /\ Stream = <<>> => Returned.tag = "io"
        /\ (Len(Stream) = 1 /\ Stream[1] = TheReader.err) => Returned.tag = "io"

----------------------------------------------------------------------------
(* Properties of the ratio conversions (under SpecRatio) *)

\* the ratios and the bytes the conversions are specified for
RatioDomain == {MultiplyBy(n) : n \in 1..127} \cup {DivideBy(n) : n \in 1..127}
ByteDomain  == (1..127) \cup (129..255)

\* C19: for n in 1..127 MultiplyBy(n) is encoded as n and DivideBy(n) as
\* 256 - n; decoding such a byte gives the ratio back and encoding the
\* decoded ratio gives the byte back; decoding 0 is rejected.
C19_RatioRoundTrip ==
    /\ (last.from = "MultiplicationRatio" /\ last.arg \in RatioDomain /\ Len(wire) >= 1) =>
           /\ wire[1] = IF last.arg.kind = "MultiplyBy" THEN last.arg.ratio
                        ELSE 256 - last.arg.ratio
           /\ wire[1] \in ByteDomain
    /\ (last.from = "MultiplicationRatio" /\ last.arg \in RatioDomain /\ Len(wire) >= 2) =>
           (last.tag = "ok" /\ wire[2] = last.arg)
    /\ (last.from = "u8" /\ last.arg \in ByteDomain /\ Len(wire) >= 1) =>
           /\ wire[1] \in RatioDomain
           /\ wire[1] = IF last.arg < 128 THEN MultiplyBy(last.arg)
                        ELSE DivideBy(256 - last.arg)
    /\ (last.from = "u8" /\ last.arg \in ByteDomain /\ Len(wire) >= 2) => wire[2] = last.arg
    /\ (last.from = "u8" /\ last.arg = 0 /\ Len(wire) >= 1) =>
           (last.tag = "panic" /\ phase = None)

\* DivideBy(127) was encoded as 0x81 and decoded again
C19_Witness ==
    /\ last.from = "MultiplicationRatio"
    /\ last.arg = DivideBy(127)
    /\ wire = <<129, DivideBy(127)>>

\* C34: the byte sent for a ratio that the mr field accepts is not 0 and is
\* read by the wire encoding as the same ratio, with a magnitude in 1..127
C34_FieldRatioRoundTrip ==
    (last.from = "MultiplicationRatio" /\ last.op \in {"into_u8", "from_u8"}) =>
        /\ (Len(wire) = 1 /\ last.tag = "ok") => wire[1] \in 1..255
        /\ Len(wire) = 2 => last.tag = "ok"
        /\ (Len(wire) = 2 /\ last.tag = "ok") =>
               /\ wire[2] = last.arg
               /\ wire[2].ratio \in 1..127

----------------------------------------------------------------------------
(* Properties of one command (under SpecCommand) *)

TheCommand == last.arg.cmd

\* the byte of a ratio on the wire
RatioByte(r) == IF r.kind = "MultiplyBy" THEN r.ratio ELSE (256 - r.ratio) % 256

\* the frame of NewBitRateSelection without its checksum
BitRateFrame(c) ==
    LET k == Len(c.multiplication_ratios) IN
    <<63, 5 + k, c.bit_rate \div 256, c.bit_rate % 256,
      c.input_frequency \div 256, c.input_frequency % 256, k>>
    \o [i \in 1..k |-> RatioByte(c.multiplication_ratios[i])]

\* C21: NewBitRateSelection is written as 0x3F, the size byte 5 + k, the bit
\* rate and the input frequency big-endian, the count k, the k ratio bytes
\* and the checksum.
C21_BitRateSelectionFrame ==
    (last.op = "execute" /\ TheCommand.name = "NewBitRateSelection"
         /\ last.arg.fault = NoFault) =>
        /\ wire # <<>>
        /\ wire[1].ev = "write"
        /\ Len(wire[1].b) = Len(BitRateFrame(TheCommand)) + 1
        /\ SubSeq(wire[1].b, 1, Len(wire[1].b) - 1) = BitRateFrame(TheCommand)
        /\ SumBytes(wire[1].b) = 0

\* C26: a command is written at most once and its response read at most
\* once, the write first; nothing is read when the write or the flush fails;
\* a command that returns a response or a domain error has written its frame
\* exactly once.
C26_NoRetry ==
    last.op = "execute" =>
        LET W == WhereEv(wire, "write")
            R == WhereEv(wire, "read")
        IN  /\ W \subseteq {1}
            /\ R \subseteq {2}
            /\ Len(wire) <= 2
            /\ R # {} => W = {1}
            /\ W # {} => wire[1].b = bytes(command_data(TheCommand), overflowChecks).bytes
            /\ last.arg.fault \in {WriteFault, FlushFault} =>
                   (R = {} /\ last.tag \in {"io", "panic"})
            /\ last.tag \in {"ok", "domain"} => W = {1}

\* a domain error came back after one write and one read
C26_Witness ==
    /\ last.op = "execute"
    /\ last.tag = "domain"
    /\ Len(wire) = 2
    /\ wire[1].ev = "write"
    /\ wire[2].ev = "read"

\* C33: when tx returned Ok, so that a response was awaited or a result
\* returned, the transport accepted every byte of the encoding, in order
\* and once; no response is awaited for a frame sent in part
C33_WholeFrameBeforeResponse ==
    (last.op = "execute" /\ (WhereEv(wire, "read") # {} \/ last.tag \in {"ok", "domain"}))
        => /\ WhereEv(wire, "write") = {1}
           /\ wire[1].b = bytes(command_data(TheCommand), FALSE).bytes

\* the error first byte and the error codes tabulated for a command
ErrorFirstByte(name) ==
    CASE name = "DeviceSelection" -> 144
      [] name = "NewBitRateSelection" -> 191
      [] name = "BlockErasure" -> 216
      [] name = "MemoryRead" -> 210
ErrorTable(name) ==
    CASE name = "DeviceSelection" -> {<<17, "Checksum">>, <<33, "DeviceCode">>}
      [] name = "NewBitRateSelection" ->
             {<<17, "Checksum">>, <<36, "BitRateSelection">>, <<37, "InputFrequency">>,
              <<38, "MultiplicationRatio">>, <<39, "OperatingFrequency">>}
      [] name = "BlockErasure" ->
             {<<17, "Checksum">>, <<41, "BlockNumber">>, <<81, "Erasure">>}
      [] name = "MemoryRead" -> {<<17, "Checksum">>, <<42, "Address">>, <<43, "DataSize">>}

\* C27: after its error first byte a command reports exactly the tabulated
\* error codes as its domain errors; any other code is fatal, never a domain
\* error and never a success.
C27_ErrorCodesTabulated ==
    last.op = "execute" =>
        LET name == TheCommand.name
            reply == last.arg.reply
        IN  /\ last.tag = "domain" =>
                   /\ Len(reply) >= 2
                   /\ reply[1] = ErrorFirstByte(name)
                   /\ <<reply[2], last.val>> \in ErrorTable(name)
            /\ (last.arg.fault = NoFault /\ Len(reply) >= 2
                    /\ reply[1] = ErrorFirstByte(name)) =>
                   IF \E e \in ErrorTable(name) : e[1] = reply[2]
                   THEN last.tag = "domain" /\ <<reply[2], last.val>> \in ErrorTable(name)
                   ELSE last.tag = "panic"

\* BlockErasure was answered 0xD8 0x29
C27_Witness ==
    /\ last.op = "execute"
    /\ TheCommand.name = "BlockErasure"
    /\ last.arg.reply = <<216, 41>>
    /\ last.tag = "domain"
    /\ last.val = "BlockNumber"

----------------------------------------------------------------------------
(* Properties of the programming and inquiry commands (under Spec) *)

\* C15: program_block writes one frame of 263 bytes: 0x50, the size byte
\* 0x04, the address big-endian, the 256 data bytes and a checksum over all
\* bytes before it.
C15_ProgramBlockFrame ==
    last.op = "program_block" =>
        /\ Seg = <<>> => last.tag = "io"
        /\ Seg # <<>> =>
               /\ Seg[1].ev = "write"
               /\ Len(Seg[1].b) = 263
               /\ SubSeq(Seg[1].b, 1, 2) = <<80, 4>>
               /\ SubSeq(Seg[1].b, 3, 6) = to_be_bytes32(last.arg.address)
               /\ SubSeq(Seg[1].b, 7, 262) = last.arg.data
               /\ SumBytes(Seg[1].b) = 0
               /\ Cardinality(WhereEv(Seg, "write")) = 1

\* C20: user_boot_area writes the request 0x24 and accepts the response
\* first byte 0x34; user_area writes the request 0x25 and accepts the
\* response first byte 0x35.
C20_AreaInquiryOpcodes ==
    /\ (last.op = "user_boot_area" /\ Seg # <<>>) => Seg[1] = Tx(<<36>>)
    /\ (last.op = "user_boot_area" /\ last.tag = "ok") => Seg[2].b[1] = 52
    /\ (last.op = "user_area" /\ Seg # <<>>) => Seg[1] = Tx(<<37>>)
    /\ (last.op = "user_area" /\ last.tag = "ok") => Seg[2].b[1] = 53

====
